---- MODULE Spec2Model ----
(***************************************************************************)
(* A model of the document-processing assistant: the extraction strategies *)
(* and their dispatcher (core/extractor.py), the service configurations    *)
(* (core/config.py), the chat and summarizer back ends (core/chat_engine.py*)
(* and core/summarizer.py) and the history store (core/history_manager.py).*)
(*                                                                         *)
(* Strings are modelled as sequences of pieces.  A piece is a literal, a   *)
(* run of characters returned by a collaborator, or one of the formatted   *)
(* placeholders the code builds with f-strings; the fields page/of/msg     *)
(* carry the values interpolated into the f-string.                        *)
(***************************************************************************)
EXTENDS Integers, Sequences, FiniteSets, TLC

(***************************************************************************)
(* Bounds of the model.                                                    *)
(***************************************************************************)
MaxPages == 2

MaxParagraphs == 41

(***************************************************************************)
(* Strings.                                                                *)
(***************************************************************************)
Piece(k, p, n, m, cs) == [kind |-> k, page |-> p, of |-> n, msg |-> m, chars |-> cs]

Lit(s) == Piece("lit", 0, 0, s, <<>>)

Chars(cs) == Piece("chars", 0, 0, "", cs)

Whitespace == {" ", "\n"}

RECURSIVE LStrip(_)
LStrip(cs) ==
    IF cs # <<>> /\ Head(cs) \in Whitespace THEN LStrip(Tail(cs)) ELSE cs

RECURSIVE RStrip(_)
RStrip(cs) ==
    IF cs # <<>> /\ cs[Len(cs)] \in Whitespace
    THEN RStrip(SubSeq(cs, 1, Len(cs) - 1))
    ELSE cs

\* str.strip(): leading and trailing whitespace removed.
Strip(cs) == RStrip(LStrip(cs))

\* Python truthiness of a str: non-empty.
Truthy(cs) == cs # <<>>

RECURSIVE Join(_, _)
\* sep.join(list): the elements with sep between neighbours, "" for [].
Join(sep, list) ==
    IF list = <<>> THEN <<>>
    ELSE IF Len(list) = 1 THEN list[1]
    ELSE list[1] \o sep \o Join(sep, Tail(list))

(***************************************************************************)
(* core/config.py: a service is available iff bool(api_key).               *)
(***************************************************************************)
ApiKeys == {"None", "", "key"}

\* A variant that tests the key against None only.
is_available_not_none(api_key) == api_key # "None"

is_available(api_key) == api_key \notin {"None", ""}

(***************************************************************************)
(* core/extractor.py: literals and f-strings.                              *)
(***************************************************************************)
PageBreak == Lit("\n\n--- Page Break ---\n\n")

ErrGeminiKey == <<Lit("[Error: Gemini API key not configured]")>>

ErrOpenAIKey == <<Lit("[Error: OpenAI API key not configured]")>>

ErrNoStrategy == <<Lit("[Error: No extraction strategy selected]")>>

\* f"[Error: {str(e)}]"
ErrOpen(m) == <<Piece("erropen", 0, 0, m, <<>>)>>

\* f"[No text found on Page {i}/{N}]"
NoTextFound(i, n) == <<Piece("notext", i, n, "", <<>>)>>

\* f"[Error processing Page {i}/{N}: {str(e)}]"
ErrPage(i, n, m) == <<Piece("errpage", i, n, m, <<>>)>>

\* f"[Error: Error loading PDF: {str(e)}]"
ErrLoadPdf(m) == <<Piece("errloadpdf", 0, 0, m, <<>>)>>

\* f"[Error: Error reading DOCX file: {str(e)}]"
ErrDocx(m) == <<Piece("errdocx", 0, 0, m, <<>>)>>

\* Progress messages: the text and the values interpolated into it.
Msg(t, p, n) == [text |-> t, page |-> p, of |-> n]

Strategies == {"langchain", "gemini", "openai", "docx"}

VisionStrategies == {"gemini", "openai"}

\* What the remote vision model can answer for a page.
RemoteTexts == {<<>>, <<" ">>, <<"a">>, <<" ", "a">>}

\* One page's collaborator outcomes inside the try block of the page loop:
\* the rasterization, the write of the temp image (made and consulted by
\* the OpenAI back end only), the remote call.  A step that was not reached
\* is "skip".
PageOutcomes ==
    {[raster |-> "raise", temp |-> "skip", remote |-> "skip", chars |-> <<>>],
     [raster |-> "ok", temp |-> "raise", remote |-> "skip", chars |-> <<>>],
     [raster |-> "ok", temp |-> "ok", remote |-> "raise", chars |-> <<>>],
     [raster |-> "ok", temp |-> "ok", remote |-> "none", chars |-> <<>>]}
    \cup {[raster |-> "ok", temp |-> "ok", remote |-> "text", chars |-> t] :
             t \in RemoteTexts}

\* The Gemini back end hands the image bytes over inline: no temp image.
PageOutcomesOf(s) ==
    IF s = "openai" THEN PageOutcomes
    ELSE {o \in PageOutcomes : o.temp # "raise"}

VARIABLES
    strategy,                 \* DocumentProcessor.strategy
    gemini_api_key,           \* GeminiConfig.api_key
    openai_api_key,           \* OpenAIConfig.api_key
    pc,                       \* position of the running process() call
    total_pages,              \* len(pdf_document), -1 before it is read
    page_num,                 \* loop variable of the page loop
    all_pages_text_content,   \* the list of page results
    progress,                 \* messages given to progress_callback in this call
    pdf_open,                 \* fitz.open succeeded and close() was not called
    opens,                    \* fitz.open / loader calls in this call
    remote_calls,             \* remote calls issued, by page, in this call
    temp_images,              \* files in outputs/temp_images
    temp_writes,              \* temp image writes in this call
    attempted,                \* pages whose try block was entered, in order
    page_outcomes,            \* what the collaborators did on each of them
    forwarded,                \* strategies whose extract_text this call invoked
    outcome,                  \* "none" | "returned" | "raised"
    result,                   \* the string the call returned
    last_set,                 \* the argument of the latest set_strategy call
    history_data,             \* HistoryManager.history_data
    recent_query,             \* arguments of the latest get_recent_files call
    recent_files,             \* what that call returned
    history_file,             \* the content of user_history.json
    page_history_data,        \* history_data of a page's own HistoryManager
    managers,                 \* per manager: "none" | "ready" | "raised"
    last_call,                \* the latest HistoryManager call and its save
    clock,                    \* the latest datetime.now() reading taken
    clock_regressed,          \* some reading was earlier than the one before
    started_initialized,      \* the first load gives the four empty lists
    uploads,                  \* files in uploads/
    current_uploaded_filename, \* session_state of the document page
    extracted_text,           \*   AbsentText, NoText or a result text
    output_filename,          \*   AbsentName, NoName or a file name
    current_audio_filename,   \* session_state of the audio page
    transcription_result,
    audio_output_filename,
    current_summary_filename, \* session_state of the summarizer page
    summary_result,
    summary_output_filename,
    chat_document_chunks,     \* session_state of the chat page
    offered,                  \* the download button the latest run of a page rendered
    last_rerun,               \* the latest run of a page: its upload and button
    recent_activity,          \* what the home screen's Recent Activity panel listed
    deepgram_api_key,         \* DeepgramConfig.api_key
    transcriber,              \* AudioProcessor.transcriber
    tr_events,                \* steps of the running process() call of the audio processor
    tr_outcome,               \* "none" | "returned" | "raised"
    tr_result,                \* the string that call returned
    chat_remote_calls,        \* remote calls issued by the generate_response call
    audio_uploads,            \* files in audio_uploads/
    current_chat_filename,    \* st.session_state.current_chat_filename
    run,                      \* the latest run of a page's show()
    chat_call,                \* arguments of the latest generate_response call
    chat_context,             \* the context it built from the chunks
    chat_request,             \* the request it sent to the remote model
    chat_outcome,             \* "none" | "returned" | "raised"
    chat_result,              \* the string it returned
    summarizer,               \* SummarizerService.summarizer
    sum_call,                 \* the file and summary type of the call
    sum_pc,                   \* position of the running summarize_document call
    sum_chunks,               \* document_chunks handed to summarize
    sum_events,               \* what the call did, in order
    sum_request,              \* the request sent to the remote model
    sum_outcome,              \* "none" | "returned" | "raised"
    sum_result                \* the string the call returned

extractVars ==
    <<strategy, gemini_api_key, openai_api_key, pc, total_pages, page_num,
      all_pages_text_content, progress, pdf_open, opens, remote_calls,
      temp_images, temp_writes, attempted, page_outcomes, forwarded, outcome, result,
      last_set>>

storeVars ==
    <<history_file, page_history_data, managers, last_call, clock,
      clock_regressed, started_initialized>>

historyVars == <<history_data, recent_query, recent_files, storeVars>>

pageVars == <<uploads, audio_uploads, current_chat_filename, run>>

chatVars ==
    <<chat_call, chat_context, chat_request, chat_outcome, chat_result,
      chat_remote_calls>>

audioVars == <<deepgram_api_key, transcriber, tr_events, tr_outcome, tr_result>>

summaryVars ==
    <<summarizer, sum_call, sum_pc, sum_chunks, sum_events, sum_request, sum_outcome,
      sum_result>>

sessionVars ==
    <<current_uploaded_filename, extracted_text, output_filename,
      current_audio_filename, transcription_result, audio_output_filename,
      current_summary_filename, summary_result, summary_output_filename,
      chat_document_chunks, offered, last_rerun, recent_activity>>

vars ==
    <<extractVars, historyVars, chatVars, summaryVars, pageVars, audioVars,
      sessionVars>>

Features == {"pdf_to_text", "audio_to_text", "chat_with_doc", "summarizer"}

\* HistoryManager._initialize_history
InitializeHistory == [f \in Features |-> <<>>]

NoCall == [engine |-> "None", chunks |-> <<>>, history |-> <<>>]

NoQuery == [feature |-> "None", limit |-> 0]

\* The HistoryManager instances: the one of DocuTextApp and the one of a page.
Instances == {"app", "page"}

HistoryFile(kind, data) == [kind |-> kind, data |-> data]

\* os.path.exists(self.history_file) is False.
MissingFile == HistoryFile("missing", InitializeHistory)

NoStoreCall == [inst |-> "None", op |-> "None", feature |-> "None", how |-> "None"]

NoRun ==
    [page |-> "None", file |-> "None", operated |-> FALSE, outcome |-> "None",
     entries_before |-> 0, stuck |-> FALSE]

\* No download button, no page run yet, no panel shown yet.
NoText == [prefix |-> "None", file |-> "None"]

AbsentText == [prefix |-> "absent", file |-> "None"]

NoName == [base |-> "None", suffix |-> ""]

AbsentName == [base |-> "absent", suffix |-> ""]

NoChunks == [from |-> "None"]

AbsentChunks == [from |-> "absent"]

NoDownload == [text |-> NoText, file_name |-> NoName]

NoRerun == [page |-> "None", upload |-> "None", pressed |-> FALSE]

NoActivity == [shown |-> FALSE, tabs |-> [f \in Features |-> <<>>]]

NoFile == [ext |-> "", readable |-> FALSE, chunks |-> <<>>, summary_type |-> ""]

\* The state after construction: the keys are whatever the environment
\* holds (os.getenv), DocumentProcessor.strategy and
\* SummarizerService.summarizer are None, the history is the four empty
\* lists, and no call has been made.
InitExtract ==
    /\ gemini_api_key \in ApiKeys
    /\ openai_api_key \in ApiKeys
    /\ strategy = "None"
    /\ pc = "idle"
    /\ total_pages = -1
    /\ page_num = 0
    /\ all_pages_text_content = <<>>
    /\ progress = <<>>
    /\ pdf_open = FALSE
    /\ opens = 0
    /\ remote_calls = <<>>
    /\ temp_images = {}
    /\ temp_writes = 0
    /\ attempted = <<>>
    /\ page_outcomes = <<>>
    /\ forwarded = <<>>
    /\ outcome = "none"
    /\ result = <<>>
    /\ last_set = "None"
    /\ history_data = InitializeHistory
    /\ recent_query = NoQuery
    /\ recent_files = <<>>
    /\ current_uploaded_filename = "absent"
    /\ extracted_text = AbsentText
    /\ output_filename = AbsentName
    /\ current_audio_filename = "absent"
    /\ transcription_result = AbsentText
    /\ audio_output_filename = AbsentName
    /\ current_summary_filename = "absent"
    /\ summary_result = AbsentText
    /\ summary_output_filename = AbsentName
    /\ chat_document_chunks = AbsentChunks
    /\ offered = NoDownload
    /\ last_rerun = NoRerun
    /\ recent_activity = NoActivity
    /\ deepgram_api_key = "None"
    /\ transcriber = "None"
    /\ tr_events = <<>>
    /\ tr_outcome = "none"
    /\ tr_result = ""
    /\ chat_remote_calls = <<>>
    /\ history_file = MissingFile
    /\ page_history_data = InitializeHistory
    /\ managers = [i \in Instances |-> "none"]
    /\ last_call = NoStoreCall
    /\ clock = 0
    /\ clock_regressed = FALSE
    /\ started_initialized = TRUE
    /\ uploads = {}
    /\ audio_uploads = {}
    /\ current_chat_filename = "None"
    /\ run = NoRun
    /\ chat_call = NoCall
    /\ chat_context = <<>>
    /\ chat_request = <<>>
    /\ chat_outcome = "none"
    /\ chat_result = ""
    /\ summarizer = "None"
    /\ sum_call = NoFile
    /\ sum_pc = "idle"
    /\ sum_chunks = <<>>
    /\ sum_events = <<>>
    /\ sum_request = <<>>
    /\ sum_outcome = "none"
    /\ sum_result = <<>>

(***************************************************************************)
(* DocumentProcessor (core/extractor.py).                                  *)
(***************************************************************************)
\* How a call ends: a string handed back, or an exception leaving process().
Return(r) ==
    /\ outcome' = "returned"
    /\ result' = r
    /\ pc' = "idle"

Raise ==
    /\ outcome' = "raised"
    /\ result' = <<>>
    /\ pc' = "idle"

Emit(ms) == progress' = progress \o ms

\* DocumentProcessor.set_strategy
SetStrategy(s) ==
    /\ pc = "idle"
    /\ strategy' = s
    /\ last_set' = s
    /\ UNCHANGED <<gemini_api_key, openai_api_key, pc, total_pages, page_num,
                   all_pages_text_content, progress, pdf_open, opens,
                   remote_calls, temp_images, temp_writes, attempted, page_outcomes,
                   forwarded, outcome, result, historyVars, pageVars, chatVars,
                   summaryVars, audioVars, sessionVars>>

\* A variant that always dispatches to the direct-text extractor.
ProcessTargetFixed == "langchain"

\* The strategy whose extract_text a process() call invokes.
ProcessTarget == strategy

\* DocumentProcessor.process: the dispatch.  The bookkeeping of the previous
\* call (its progress sink, its counters) is started afresh.
Process ==
    /\ pc = "idle"
    /\ total_pages' = -1
    /\ page_num' = 0
    /\ all_pages_text_content' = <<>>
    /\ progress' = <<>>
    /\ pdf_open' = FALSE
    /\ opens' = 0
    /\ remote_calls' = <<>>
    /\ temp_writes' = 0
    /\ attempted' = <<>>
    /\ page_outcomes' = <<>>
    /\ IF strategy = "None"
       THEN /\ forwarded' = <<>>
            /\ Return(ErrNoStrategy)
       ELSE /\ forwarded' = <<ProcessTarget>>
            /\ outcome' = "none"
            /\ result' = <<>>
            /\ pc' = "extract"
    /\ UNCHANGED <<strategy, gemini_api_key, openai_api_key, temp_images,
                   last_set, historyVars, pageVars, chatVars, summaryVars,
                   audioVars, sessionVars>>

(***************************************************************************)
(* GeminiPDFExtractor.extract_text and OpenAIPDFExtractor.extract_text.    *)
(***************************************************************************)
Running == IF forwarded = <<>> THEN "None" ELSE forwarded[1]

KeyOf(s) == IF s = "gemini" THEN gemini_api_key ELSE openai_api_key

ErrKeyOf(s) == IF s = "gemini" THEN ErrGeminiKey ELSE ErrOpenAIKey

\* Where extract_text goes once the credential is there: the OpenAI back end
\* builds its client before it opens the file, the Gemini back end opens first.
AfterCredential(s) == IF s = "openai" THEN "client" ELSE "open"

\* The entry of extract_text: the first progress message, then the
\* credential check.
StartVision ==
    /\ pc = "extract"
    /\ Running \in VisionStrategies
    /\ Emit(<<Msg("Starting extraction", 0, 0)>>)
    /\ IF ~is_available(KeyOf(Running))
       THEN Return(ErrKeyOf(Running))
       ELSE /\ pc' = AfterCredential(Running)
            /\ UNCHANGED <<outcome, result>>
    /\ UNCHANGED <<strategy, gemini_api_key, openai_api_key, total_pages,
                   page_num, all_pages_text_content, pdf_open, opens,
                   remote_calls, temp_images, temp_writes, attempted, page_outcomes,
                   forwarded, last_set, historyVars, pageVars, chatVars, summaryVars,
                   audioVars, sessionVars>>

\* client = OpenAI(api_key=...): outside every try block.
ConstructClient ==
    /\ pc = "client"
    /\ \E ok \in BOOLEAN :
          IF ok
          THEN /\ pc' = "open"
               /\ UNCHANGED <<outcome, result>>
          ELSE Raise
    /\ UNCHANGED <<strategy, gemini_api_key, openai_api_key, total_pages,
                   page_num, all_pages_text_content, progress, pdf_open,
                   opens, remote_calls, temp_images, temp_writes, attempted, page_outcomes,
                   forwarded, last_set, historyVars, pageVars, chatVars, summaryVars,
                   audioVars, sessionVars>>

\* fitz.open in its try block, then len(pdf_document).
OpenPdf ==
    /\ pc = "open"
    /\ opens' = opens + 1
    /\ \/ /\ Emit(<<Msg("Opening PDF document...", 0, 0),
                    Msg("Error opening PDF", 0, 0)>>)
          /\ Return(ErrOpen("open failed"))
          /\ UNCHANGED <<total_pages, pdf_open>>
       \/ \E n \in 0..MaxPages :
             /\ Emit(<<Msg("Opening PDF document...", 0, 0),
                       Msg("PDF has pages", 0, n)>>)
             /\ pdf_open' = TRUE
             /\ total_pages' = n
             /\ pc' = IF Running = "gemini" THEN "model" ELSE "page"
             /\ UNCHANGED <<outcome, result>>
    /\ UNCHANGED <<strategy, gemini_api_key, openai_api_key, page_num,
                   all_pages_text_content, remote_calls, temp_images,
                   temp_writes, attempted, page_outcomes, forwarded, last_set,
                   historyVars, pageVars, chatVars, summaryVars, audioVars,
                   sessionVars>>

\* model = genai.GenerativeModel(...): outside every try block.
ConstructModel ==
    /\ pc = "model"
    /\ \E ok \in BOOLEAN :
          IF ok
          THEN /\ pc' = "page"
               /\ UNCHANGED <<outcome, result>>
          ELSE Raise
    /\ UNCHANGED <<strategy, gemini_api_key, openai_api_key, total_pages,
                   page_num, all_pages_text_content, progress, pdf_open,
                   opens, remote_calls, temp_images, temp_writes, attempted, page_outcomes,
                   forwarded, last_set, historyVars, pageVars, chatVars, summaryVars,
                   audioVars, sessionVars>>

\* The entry the Gemini back end appends to all_pages_text_content for page
\* i of n.
PageResult(i, n, o) ==
    IF o.raster = "raise" THEN ErrPage(i, n, "raster failed")
    ELSE IF o.remote = "raise" THEN ErrPage(i, n, "remote failed")
    ELSE IF o.remote = "none" THEN ErrPage(i, n, "no text in response")
    ELSE IF Truthy(Strip(o.chars)) THEN <<Chars(o.chars)>>
    ELSE NoTextFound(i, n)

\* A variant of the OpenAI back end without the blank test.
OpenAIPageResultRaw(i, n, o) ==
    IF o.raster = "raise" THEN ErrPage(i, n, "raster failed")
    ELSE IF o.temp = "raise" THEN ErrPage(i, n, "temp image write failed")
    ELSE IF o.remote = "raise" THEN ErrPage(i, n, "remote failed")
    ELSE IF o.remote = "none" THEN ErrPage(i, n, "no text in response")
    ELSE <<Chars(o.chars)>>

\* The entry the OpenAI back end appends for page i of n: the temp image is
\* written and read back inside the try block, before the remote call.
OpenAIPageResult(i, n, o) ==
    IF o.raster = "raise" THEN ErrPage(i, n, "raster failed")
    ELSE IF o.temp = "raise" THEN ErrPage(i, n, "temp image write failed")
    ELSE IF o.remote = "raise" THEN ErrPage(i, n, "remote failed")
    ELSE IF o.remote = "none" THEN ErrPage(i, n, "no text in response")
    ELSE IF Truthy(Strip(o.chars)) THEN <<Chars(o.chars)>>
    ELSE NoTextFound(i, n)

PageResultOf(s, i, n, o) ==
    IF s = "openai" THEN OpenAIPageResult(i, n, o) ELSE PageResult(i, n, o)

\* The progress messages of one iteration of the page loop.
PageProgress(i, n, o) ==
    <<Msg("Processing", i, n), Msg("Converting to high-resolution image", i, n)>>
    \o (IF o.raster = "raise" THEN <<>> ELSE <<Msg("Sending image", i, n)>>)
    \o (IF o.raster = "ok" /\ o.remote = "text"
        THEN <<Msg("Text extraction complete", i, n)>>
        ELSE <<Msg("Error processing", i, n)>>)

\* The page the loop works on next.
NextPage(p) == p + 1

\* A variant that sends the image of a page a second time when the remote
\* call failed.
RemoteCallsOfPageRetry(i, o) ==
    IF o.remote = "skip" THEN <<>>
    ELSE IF o.remote = "raise" THEN <<i, i>> ELSE <<i>>

\* The remote calls of one iteration: model.generate_content or
\* client.chat.completions.create is called once, when the rasterisation
\* (and the temp image) got that far; the except branch only records the error.
RemoteCallsOfPage(i, o) == IF o.remote = "skip" THEN <<>> ELSE <<i>>

\* One iteration of `for page_num in range(total_pages)`.
ProcessPage ==
    /\ pc = "page"
    /\ page_num < total_pages
    /\ \E o \in PageOutcomesOf(Running), rm_ok \in BOOLEAN :
          /\ attempted' = Append(attempted, page_num + 1)
          /\ page_outcomes' = Append(page_outcomes, o)
          /\ Emit(PageProgress(page_num + 1, total_pages, o))
          /\ remote_calls' = remote_calls \o RemoteCallsOfPage(page_num + 1, o)
          /\ temp_writes' = IF Running = "openai" /\ o.raster = "ok"
                            THEN temp_writes + 1
                            ELSE temp_writes
          \* the temp image is written, read back, and removed after the try
          \* block; a failing os.remove is swallowed
          /\ temp_images' =
                IF Running = "openai"
                THEN IF rm_ok
                     THEN temp_images \ {page_num}
                     ELSE IF o.raster = "ok"
                          THEN temp_images \cup {page_num}
                          ELSE temp_images
                ELSE temp_images
          /\ all_pages_text_content' =
                Append(all_pages_text_content,
                       PageResultOf(Running, page_num + 1, total_pages, o))
    /\ page_num' = NextPage(page_num)
    /\ UNCHANGED <<strategy, gemini_api_key, openai_api_key, pc, total_pages,
                   pdf_open, opens, forwarded, outcome, result, last_set,
                   historyVars, pageVars, chatVars, summaryVars, audioVars,
                   sessionVars>>

\* A variant that writes the separator after every page, the last included.
FinalTextTrailing(list) ==
    Join(<<>>, [i \in 1..Len(list) |-> list[i] \o <<PageBreak>>])

\* "\n\n--- Page Break ---\n\n".join(all_pages_text_content)
FinalText(list) == Join(<<PageBreak>>, list)

\* After the loop: close, join, return.
FinishVision ==
    /\ pc = "page"
    /\ page_num >= total_pages
    /\ pdf_open' = FALSE
    /\ Emit(<<Msg("Combining text from all pages...", 0, 0),
              Msg("Extraction complete.", 0, 0)>>)
    /\ Return(FinalText(all_pages_text_content))
    /\ UNCHANGED <<strategy, gemini_api_key, openai_api_key, total_pages,
                   page_num, all_pages_text_content, opens, remote_calls,
                   temp_images, temp_writes, attempted, page_outcomes, forwarded, last_set,
                   historyVars, pageVars, chatVars, summaryVars, audioVars,
                   sessionVars>>

(***************************************************************************)
(* LangchainPDFExtractor.extract_text and DocxExtractor.extract_text.      *)
(***************************************************************************)
MaxSections == 2

\* doc_chunk.page_content of section i, para.text of paragraph i.
SectionText(i) == <<Piece("section", i, 0, "", <<>>)>>

ParaText(i) == <<Piece("para", i, 0, "", <<>>)>>

RECURSIVE LangchainText(_, _)
\* extracted_text += doc_chunk.page_content + "\n\n", sections i..k
LangchainText(i, k) ==
    IF i > k THEN <<>>
    ELSE SectionText(i) \o <<Lit("\n\n")>> \o LangchainText(i + 1, k)

LangchainExtract ==
    /\ pc = "extract"
    /\ Running = "langchain"
    /\ opens' = opens + 1
    /\ \/ /\ Emit(<<Msg("Starting extraction with Custom algorithm...", 0, 0),
                    Msg("Loading PDF document...", 0, 0),
                    Msg("Error loading PDF", 0, 0)>>)
          /\ Return(ErrLoadPdf("load failed"))
       \/ \E k \in 0..MaxSections :
             /\ Emit(<<Msg("Starting extraction with Custom algorithm...", 0, 0),
                       Msg("Loading PDF document...", 0, 0),
                       Msg("PDF loaded into sections", 0, k)>>
                     \o [i \in 1..k |-> Msg("Extracted text from section", i, k)]
                     \o <<Msg("Extraction complete.", 0, 0)>>)
             /\ Return(LangchainText(1, k))
    /\ UNCHANGED <<strategy, gemini_api_key, openai_api_key, total_pages,
                   page_num, all_pages_text_content, pdf_open, remote_calls,
                   temp_images, temp_writes, attempted, page_outcomes, forwarded, last_set,
                   historyVars, pageVars, chatVars, summaryVars, audioVars,
                   sessionVars>>

\* if (i + 1) % 20 == 0
ProgressEvery == 20

RECURSIVE DocxProgressBefore(_, _)
\* A variant that tests the index i of enumerate, not i + 1.
DocxProgressBefore(i, n) ==
    IF i > n THEN <<>>
    ELSE (IF (i - 1) % ProgressEvery = 0
          THEN <<Msg("Processed paragraphs", i, 0)>>
          ELSE <<>>) \o DocxProgressBefore(i + 1, n)

RECURSIVE DocxProgress(_, _)
\* The "Processed k paragraphs..." messages of paragraphs i..n.
DocxProgress(i, n) ==
    IF i > n THEN <<>>
    ELSE (IF i % ProgressEvery = 0
          THEN <<Msg("Processed paragraphs", i, 0)>>
          ELSE <<>>) \o DocxProgress(i + 1, n)

DocxExtract ==
    /\ pc = "extract"
    /\ Running = "docx"
    /\ opens' = opens + 1
    /\ \/ /\ Emit(<<Msg("Starting DOCX text extraction...", 0, 0),
                    Msg("Opening DOCX file", 0, 0),
                    Msg("Error reading DOCX file", 0, 0)>>)
          /\ Return(ErrDocx("open failed"))
       \/ \E n \in 0..MaxParagraphs :
             /\ Emit(<<Msg("Starting DOCX text extraction...", 0, 0),
                       Msg("Opening DOCX file", 0, 0),
                       Msg("DOCX file opened. Extracting paragraphs...", 0, 0)>>
                     \o DocxProgress(1, n)
                     \o <<Msg("Total paragraphs processed.", 0, n),
                          Msg("DOCX extraction complete.", 0, 0)>>)
             /\ Return(Join(<<Lit("\n")>>, [i \in 1..n |-> ParaText(i)]))
    /\ UNCHANGED <<strategy, gemini_api_key, openai_api_key, total_pages,
                   page_num, all_pages_text_content, pdf_open, remote_calls,
                   temp_images, temp_writes, attempted, page_outcomes, forwarded, last_set,
                   historyVars, pageVars, chatVars, summaryVars, audioVars,
                   sessionVars>>

ExtractNext ==
    \/ \E s \in Strategies : SetStrategy(s)
    \/ Process
    \/ StartVision
    \/ ConstructClient
    \/ OpenPdf
    \/ ConstructModel
    \/ ProcessPage
    \/ FinishVision
    \/ LangchainExtract
    \/ DocxExtract

SpecExtract == InitExtract /\ [][ExtractNext]_vars

(***************************************************************************)
(* Properties of the extraction pipeline, checked under SpecExtract.       *)
(***************************************************************************)
CallEnded == pc = "idle" /\ outcome # "none"

\* A vision-OCR call that has ended after the PDF opened with total_pages.
VisionOpened ==
    /\ CallEnded
    /\ Running \in VisionStrategies
    /\ total_pages >= 0

KeyAbsent(k) == k = "None" \/ k = ""

CountBreaks(text) == Cardinality({i \in 1..Len(text) : text[i] = PageBreak})

\* C1: for every strategy and every outcome of its collaborators,
\* DocumentProcessor.process returns a string and no exception propagates to
\* the caller.
C1_ProcessNeverRaises == outcome # "raised"

Blank(cs) == \A k \in 1..Len(cs) : cs[k] \in Whitespace

\* The entry prescribed for page i of n after collaborator outcome o.
WellFormedEntry(e, i, n, o) ==
    /\ Len(e) = 1
    /\ IF o.raster = "raise" \/ o.remote \in {"raise", "none", "skip"}
       THEN e[1].kind = "errpage" /\ e[1].page = i /\ e[1].of = n
       ELSE IF Blank(o.chars)
            THEN e = NoTextFound(i, n)
            ELSE e = <<Chars(o.chars)>>

PagesInOrder ==
    /\ attempted = [i \in 1..total_pages |-> i]
    /\ Len(all_pages_text_content) = total_pages
    /\ Len(page_outcomes) = total_pages
    /\ \A i \in 1..total_pages :
          WellFormedEntry(all_pages_text_content[i], i, total_pages,
                          page_outcomes[i])

\* C2: in a vision-OCR extraction of a PDF that opened with N pages, every
\* page 1..N is attempted exactly once in increasing order, and the list of
\* page results has exactly one entry per page at that page's position: the
\* text when non-blank, the no-text placeholder when blank, the error
\* placeholder when rasterization or the remote call raised.
C2_EveryPageOnceInOrder == VisionOpened => PagesInOrder

\* The same, for the calls that returned a string.
PagesInOrderWhenReturned ==
    (VisionOpened /\ outcome = "returned") => PagesInOrder

\* C3 as stated: the returned text holds the separator exactly
\* total_pages - 1 times, for every total_pages >= 0.
C3_SeparatorCountAsStated ==
    (VisionOpened /\ outcome = "returned")
        => CountBreaks(result) = total_pages - 1

\* C3: the text returned by a vision-OCR strategy for a PDF that opened with
\* total_pages pages holds the separator exactly total_pages - 1 times when
\* total_pages >= 1, and not at all when total_pages = 0.
C3_SeparatorCount ==
    (VisionOpened /\ outcome = "returned")
        => CountBreaks(result) = IF total_pages = 0 THEN 0 ELSE total_pages - 1

C3_Witness ==
    /\ VisionOpened
    /\ outcome = "returned"
    /\ total_pages = 2
    /\ all_pages_text_content[1][1].kind = "errpage"
    /\ all_pages_text_content[2][1].kind = "notext"
    /\ CountBreaks(result) = 1

\* C4: when the engine's API key is absent or empty, the vision-OCR
\* extract_text returns the "API key not configured" string of its service
\* without opening the PDF, writing a temp image or issuing a remote call:
\* the call never gets past its credential check.
C4_CredentialCheckedFirst ==
    (Running \in VisionStrategies /\ KeyAbsent(KeyOf(Running)))
        => /\ pc \in {"idle", "extract"}
           /\ opens = 0
           /\ temp_writes = 0
           /\ remote_calls = <<>>
           /\ pdf_open = FALSE
           /\ pc = "idle" =>
                 /\ outcome = "returned"
                 /\ result = ErrKeyOf(Running)

C4_Witness ==
    /\ CallEnded
    /\ Running = "openai"
    /\ openai_api_key = ""
    /\ result = ErrOpenAIKey
    /\ progress # <<>>

\* C6: a process call with no strategy set returns the "No extraction
\* strategy selected" string without emitting progress or touching the file;
\* every other process call invokes extract_text exactly once, on the most
\* recently set strategy; and set_strategy leaves the result already returned
\* as it was.
C6_Dispatch ==
    [][/\ (pc = "idle" /\ strategy' = strategy /\ last_set' = last_set)
            => IF last_set = "None"
               THEN /\ pc' = "idle"
                    /\ outcome' = "returned"
                    /\ result' = ErrNoStrategy
                    /\ progress' = <<>>
                    /\ opens' = 0
                    /\ forwarded' = <<>>
               ELSE /\ pc' = "extract"
                    /\ forwarded' = <<last_set>>
       /\ pc # "idle" => forwarded' = forwarded
       /\ (strategy' # strategy \/ last_set' # last_set)
            => result' = result /\ outcome' = outcome /\ progress' = progress
      ]_vars

C6_Witness ==
    /\ CallEnded
    /\ outcome = "returned"
    /\ Running = "docx"
    /\ strategy = "gemini"
    /\ result # <<>>

\* A DocxExtractor call that has returned after the document opened.
DocxOpened ==
    /\ CallEnded
    /\ outcome = "returned"
    /\ Running = "docx"
    /\ result # ErrDocx("open failed")

IsProcessed(m) == m.text = "Processed paragraphs"

\* C12: for a DOCX document of N paragraphs that opens, DocxExtractor emits
\* a "Processed k paragraphs..." message exactly for each multiple k of 20
\* with k <= N, in increasing order, then the total-count message and the
\* completion message, and returns the N paragraph texts in document order
\* joined by single newlines.
C12_DocxProgress ==
    DocxOpened =>
        LET last == Len(progress)
            n == progress[last - 1].of
        IN  /\ last >= 5
            /\ progress[last] = Msg("DOCX extraction complete.", 0, 0)
            /\ progress[last - 1] = Msg("Total paragraphs processed.", 0, n)
            /\ SelectSeq(progress, IsProcessed)
                  = [j \in 1..(n \div 20) |->
                        Msg("Processed paragraphs", 20 * j, 0)]
            /\ Len(result) = (IF n = 0 THEN 0 ELSE 2 * n - 1)
            /\ \A i \in 1..Len(result) :
                  result[i] = (IF i % 2 = 1
                               THEN Piece("para", (i + 1) \div 2, 0, "", <<>>)
                               ELSE Lit("\n"))

\* A 41-paragraph document: messages at 20 and 40, 41 texts returned.
C12_Witness ==
    /\ DocxOpened
    /\ SelectSeq(progress, IsProcessed)
          = <<Msg("Processed paragraphs", 20, 0),
              Msg("Processed paragraphs", 40, 0)>>
    /\ Len(result) = 81

\* The outcomes both back ends can meet: the rasterization raised, or the
\* remote call was made and returned text (blank or not) or raised.
ListedOutcome(o) == o.raster = "raise" \/ o.remote \in {"text", "raise"}

Counterpart(s) == IF s = "openai" THEN "gemini" ELSE "openai"

\* What the other back end appends for the page outcomes of this call.
CounterpartResults ==
    [i \in 1..Len(page_outcomes) |->
        PageResultOf(Counterpart(Running), i, total_pages, page_outcomes[i])]

\* C21: given the same PDF and the same per-page collaborator outcomes
\* (rasterization succeeds or raises, the remote call returns non-blank
\* text, blank text, or raises), GeminiPDFExtractor and OpenAIPDFExtractor
\* produce the same sequence of page results and the same joined text.
C21_SameResultsOnBothBackends ==
    (/\ VisionOpened
     /\ outcome = "returned"
     /\ \A i \in 1..Len(page_outcomes) : ListedOutcome(page_outcomes[i]))
        => /\ all_pages_text_content = CounterpartResults
           /\ result = FinalText(CounterpartResults)

\* An OpenAI run over two pages: blank text on the first, the remote call
\* raising on the second.
C21_Witness ==
    /\ VisionOpened
    /\ outcome = "returned"
    /\ Running = "openai"
    /\ total_pages = 2
    /\ Len(page_outcomes) = 2
    /\ page_outcomes[1].remote = "text"
    /\ page_outcomes[1].chars = <<" ">>
    /\ page_outcomes[2].remote = "raise"

\* A progress message that names a page.
NamesPage(m) == m.page >= 1

\* The page-count message precedes every page message, and the page
\* messages come page by page.
StepOrder ==
    /\ \A j, k \in 1..Len(progress) :
          (NamesPage(progress[j]) /\ progress[k].text = "PDF has pages") => k < j
    /\ \A j, k \in 1..Len(progress) :
          (j < k /\ NamesPage(progress[j]) /\ NamesPage(progress[k]))
              => progress[j].page <= progress[k].page
    /\ \A j \in 1..Len(progress) :
          NamesPage(progress[j])
              => \E k \in 1..Len(progress) : progress[k].text = "PDF has pages"

CompleteIsLast ==
    /\ progress # <<>>
    /\ progress[Len(progress)] = Msg("Extraction complete.", 0, 0)

\* C24: in a vision-OCR extraction the progress messages are emitted in step
\* order: the page-count message precedes every page message, every message
\* naming page i is emitted before any message naming page i+1, and
\* "Extraction complete." is the last message of every run in which the PDF
\* opened.
C24_ProgressInStepOrder ==
    /\ Running \in VisionStrategies => StepOrder
    /\ VisionOpened => CompleteIsLast

\* The same, the last conjunct for the runs that returned a string.
ProgressInStepOrderWhenReturned ==
    /\ Running \in VisionStrategies => StepOrder
    /\ (VisionOpened /\ outcome = "returned") => CompleteIsLast

\* A two-page run that returned: both pages named, page 1 before page 2.
ProgressOfTwoPages ==
    /\ VisionOpened
    /\ outcome = "returned"
    /\ total_pages = 2
    /\ \E j, k \in 1..Len(progress) :
          j < k /\ progress[j].page = 1 /\ progress[k].page = 2

\* The PDF opened and the run ended without "Extraction complete.".
OpenedWithoutComplete ==
    /\ VisionOpened
    /\ ~CompleteIsLast

(***************************************************************************)
(* HistoryManager (core/history_manager.py).                               *)
(***************************************************************************)
MaxEntries == 7

MaxLimit == 6

FileNames == <<"A", "B", "C", "D", "E">>

\* The entry add_entry builds; the timestamp is the clock reading.
Entry(ts, file_name) == [timestamp |-> ts, file_name |-> file_name, details |-> <<>>]

\* A variant that puts the new entry in front of the list.
AddEntryFirst(h, feature, e) ==
    LET base == IF feature \in DOMAIN h
                THEN h
                ELSE [f \in DOMAIN h \cup {feature} |->
                         IF f \in DOMAIN h THEN h[f] ELSE <<>>]
    IN  [base EXCEPT ![feature] = <<e>> \o @]

\* A variant that starts the feature's list afresh with the new entry.
AddEntryAlone(h, feature, e) ==
    [f \in DOMAIN h \cup {feature} |-> IF f = feature THEN <<e>> ELSE h[f]]

\* add_entry on the mapping: a missing key is created, the entry is appended.
AddEntryTo(h, feature, e) ==
    LET base == IF feature \in DOMAIN h
                THEN h
                ELSE [f \in DOMAIN h \cup {feature} |->
                         IF f \in DOMAIN h THEN h[f] ELSE <<>>]
    IN  [base EXCEPT ![feature] = Append(@, e)]

NamesUsed(entries) == {entries[i].file_name : i \in 1..Len(entries)}

RECURSIVE HistoriesAfter(_)
\* The mappings a fresh store holds after at most n calls of
\* add_entry("audio_to_text", file_name), up to a renaming of the files: a
\* file not seen before is the next of FileNames.  The clock reading of the
\* n-th call is n.
HistoriesAfter(n) ==
    IF n = 0 THEN {InitializeHistory}
    ELSE LET before == HistoriesAfter(n - 1)
             longest == {h \in before : Len(h["audio_to_text"]) = n - 1}
             choices ==
                 {p \in longest \X (1..Len(FileNames)) :
                     p[2] <= Cardinality(NamesUsed(p[1]["audio_to_text"])) + 1}
         IN  before \cup
             {AddEntryTo(p[1], "audio_to_text", Entry(n, FileNames[p[2]])) :
                 p \in choices}

Histories == HistoriesAfter(MaxEntries)

RECURSIVE ScanOldestFirst(_, _, _, _, _)
\* A variant of the scan that walks the entries from the oldest.
ScanOldestFirst(entries, i, files, seen, limit) ==
    IF i > Len(entries) THEN files
    ELSE LET file_name == entries[i].file_name
         IN  IF file_name \notin seen /\ Len(files) < limit
             THEN ScanOldestFirst(entries, i + 1, Append(files, file_name),
                                  seen \cup {file_name}, limit)
             ELSE ScanOldestFirst(entries, i + 1, files, seen, limit)

\* A variant whose length test is off by one.
RECURSIVE ScanOffByOne(_, _, _, _, _)
ScanOffByOne(entries, i, files, seen, limit) ==
    IF i = 0 THEN files
    ELSE LET file_name == entries[i].file_name
         IN  IF file_name \notin seen /\ Len(files) <= limit
             THEN ScanOffByOne(entries, i - 1, Append(files, file_name),
                               seen \cup {file_name}, limit)
             ELSE ScanOffByOne(entries, i - 1, files, seen, limit)

RECURSIVE ScanRecent(_, _, _, _, _)
\* for entry in reversed(entries): entry i, then i - 1, ... down to 1.
ScanRecent(entries, i, files, seen, limit) ==
    IF i = 0 THEN files
    ELSE LET file_name == entries[i].file_name
         IN  IF file_name \notin seen /\ Len(files) < limit
             THEN ScanRecent(entries, i - 1, Append(files, file_name),
                             seen \cup {file_name}, limit)
             ELSE ScanRecent(entries, i - 1, files, seen, limit)

RecentFilesOldestFirst(h, feature, limit) ==
    IF feature \notin DOMAIN h THEN <<>>
    ELSE ScanOldestFirst(h[feature], 1, <<>>, {}, limit)

RecentFilesOffByOne(h, feature, limit) ==
    IF feature \notin DOMAIN h THEN <<>>
    ELSE ScanOffByOne(h[feature], Len(h[feature]), <<>>, {}, limit)

\* HistoryManager.get_recent_files on the mapping h.
RecentFiles(h, feature, limit) ==
    IF feature \notin DOMAIN h THEN <<>>
    ELSE ScanRecent(h[feature], Len(h[feature]), <<>>, {}, limit)

QueryFeatures == {"audio_to_text", "summarizer", "unknown_feature"}

GetRecentFiles(feature, limit) ==
    /\ recent_query' = [feature |-> feature, limit |-> limit]
    /\ recent_files' = RecentFiles(history_data, feature, limit)
    /\ UNCHANGED <<history_data, storeVars, pageVars, extractVars, chatVars,
                   summaryVars, audioVars, sessionVars>>

RecentNext ==
    \E feature \in QueryFeatures, limit \in -1..MaxLimit :
        GetRecentFiles(feature, limit)

\* A store that holds one of Histories, queried by get_recent_files.
InitRecent ==
    /\ gemini_api_key = "None"
    /\ openai_api_key = "None"
    /\ strategy = "None"
    /\ pc = "idle"
    /\ total_pages = -1
    /\ page_num = 0
    /\ all_pages_text_content = <<>>
    /\ progress = <<>>
    /\ pdf_open = FALSE
    /\ opens = 0
    /\ remote_calls = <<>>
    /\ temp_images = {}
    /\ temp_writes = 0
    /\ attempted = <<>>
    /\ page_outcomes = <<>>
    /\ forwarded = <<>>
    /\ outcome = "none"
    /\ result = <<>>
    /\ last_set = "None"
    /\ history_data \in Histories
    /\ recent_query = NoQuery
    /\ recent_files = <<>>
    /\ current_uploaded_filename = "absent"
    /\ extracted_text = AbsentText
    /\ output_filename = AbsentName
    /\ current_audio_filename = "absent"
    /\ transcription_result = AbsentText
    /\ audio_output_filename = AbsentName
    /\ current_summary_filename = "absent"
    /\ summary_result = AbsentText
    /\ summary_output_filename = AbsentName
    /\ chat_document_chunks = AbsentChunks
    /\ offered = NoDownload
    /\ last_rerun = NoRerun
    /\ recent_activity = NoActivity
    /\ deepgram_api_key = "None"
    /\ transcriber = "None"
    /\ tr_events = <<>>
    /\ tr_outcome = "none"
    /\ tr_result = ""
    /\ chat_remote_calls = <<>>
    /\ history_file = MissingFile
    /\ page_history_data = InitializeHistory
    /\ managers = [i \in Instances |-> "none"]
    /\ last_call = NoStoreCall
    /\ clock = 0
    /\ clock_regressed = FALSE
    /\ started_initialized = TRUE
    /\ uploads = {}
    /\ audio_uploads = {}
    /\ current_chat_filename = "None"
    /\ run = NoRun
    /\ chat_call = NoCall
    /\ chat_context = <<>>
    /\ chat_request = <<>>
    /\ chat_outcome = "none"
    /\ chat_result = ""
    /\ summarizer = "None"
    /\ sum_call = NoFile
    /\ sum_pc = "idle"
    /\ sum_chunks = <<>>
    /\ sum_events = <<>>
    /\ sum_request = <<>>
    /\ sum_outcome = "none"
    /\ sum_result = <<>>

SpecRecent == InitRecent /\ [][RecentNext]_vars

(***************************************************************************)
(* Properties of get_recent_files, checked under SpecRecent.               *)
(***************************************************************************)
NamesOf(entries) == [i \in 1..Len(entries) |-> entries[i].file_name]

Queried == recent_query.feature # "None"

\* The history of the example: A, B, A, C, D, A, E from oldest to newest.
ExampleQueried ==
    /\ Queried
    /\ recent_query = [feature |-> "audio_to_text", limit |-> 5]
    /\ NamesOf(history_data["audio_to_text"])
          = <<"A", "B", "A", "C", "D", "A", "E">>

\* C9 as stated: get_recent_files("audio_to_text", 5) on the history
\* [A, B, A, C, D, A, E] returns [E, D, C, A].
C9_ExampleAsStated ==
    ExampleQueried => recent_files = <<"E", "D", "C", "A">>

\* C9: get_recent_files("audio_to_text", 5) on the history
\* [A, B, A, C, D, A, E] (oldest to newest) returns [E, A, D, C, B]: the five
\* distinct names, each at the place of its latest occurrence.
C9_Example ==
    ExampleQueried => recent_files = <<"E", "A", "D", "C", "B">>

C9_Witness == ExampleQueried /\ Len(recent_files) = 5

Min(a, b) == IF a < b THEN a ELSE b

Max(a, b) == IF a > b THEN a ELSE b

\* The position of the latest entry of a list that names file_name.
LastIndex(names, file_name) ==
    CHOOSE i \in 1..Len(names) :
        /\ names[i] = file_name
        /\ \A j \in (i + 1)..Len(names) : names[j] # file_name

RecentFilesRight ==
    LET f == recent_query.feature
        limit == recent_query.limit
        r == recent_files
    IN  Queried =>
        IF f \notin DOMAIN history_data THEN r = <<>>
        ELSE LET names == NamesOf(history_data[f])
                 distinct == {names[i] : i \in 1..Len(names)}
             IN  /\ \A i, j \in 1..Len(r) : i # j => r[i] # r[j]
                 /\ Len(r) = Min(Max(limit, 0), Cardinality(distinct))
                 /\ \A i \in 1..Len(r) : r[i] \in distinct
                 /\ \A i, j \in 1..Len(r) :
                       i < j => LastIndex(names, r[i]) > LastIndex(names, r[j])
                 /\ \A x \in distinct :
                       (\A i \in 1..Len(r) : r[i] # x) =>
                          \A i \in 1..Len(r) :
                             LastIndex(names, x) < LastIndex(names, r[i])

\* C10: get_recent_files(feature, limit) returns a duplicate-free list of
\* length min(max(limit, 0), number of distinct file names), ordered by each
\* name's latest occurrence from newest to oldest; it returns the empty list
\* for a feature key that is not in the mapping; and it never modifies the
\* history.
C10_RecentFiles ==
    /\ []RecentFilesRight
    /\ [][history_data' = history_data]_vars

C10_Witness ==
    /\ recent_query = [feature |-> "audio_to_text", limit |-> 2]
    /\ Len(history_data["audio_to_text"]) = 6
    /\ recent_files = <<"B", "C">>

(***************************************************************************)
(* The history store and its backing file (core/history_manager.py): two   *)
(* HistoryManager instances over the same user_history.json.               *)
(***************************************************************************)
MaxStoreEntries == 2

\* The datetime.now() readings add_entry can take.
ClockReadings == {1, 2}

\* What user_history.json can hold before the first call: nothing, a file
\* open() cannot read, text json.load rejects, bytes the text decoding
\* rejects, a JSON object of another shape, a history of four empty lists.
InitialFiles ==
    {MissingFile,
     HistoryFile("unreadable", InitializeHistory),
     HistoryFile("invalid_json", InitializeHistory),
     HistoryFile("undecodable", InitializeHistory),
     HistoryFile("json", [other |-> <<>>]),
     HistoryFile("json", InitializeHistory)}

\* HistoryManager._load_history: json.load's value is returned as it is;
\* JSONDecodeError and IOError give the four empty lists; the
\* UnicodeDecodeError of undecodable bytes is neither and propagates.
LoadHistory(file) ==
    IF file.kind = "json" THEN [raised |-> FALSE, data |-> file.data]
    ELSE IF file.kind \in {"missing", "unreadable", "invalid_json"}
    THEN [raised |-> FALSE, data |-> InitializeHistory]
    ELSE [raised |-> TRUE, data |-> InitializeHistory]

\* How _save_history can go: written; open(..., 'w') raises IOError and the
\* file stays as it was; the write raises IOError after the truncation.
SaveOutcomes == {"ok", "open_failed", "write_failed"}

\* HistoryManager._save_history: the IOError is swallowed.
SaveHistory(file, data, how) ==
    IF how = "ok" THEN HistoryFile("json", data)
    ELSE IF how = "open_failed" THEN file
    ELSE HistoryFile("invalid_json", InitializeHistory)

\* The feature arguments used: two of the four features, another string, the
\* empty string, and "None" for an omitted argument.
AddFeatures == {"pdf_to_text", "other"}

ClearFeatures == {"pdf_to_text", "other", "", "None"}

DetailArgs == {"None", "success"}

\* details or {}: a dict is modelled by the sequence of its keys.
DetailsOrEmpty(details) == IF details = "None" THEN <<>> ELSE <<details>>

EntryOf(ts, file_name, details) ==
    [Entry(ts, file_name) EXCEPT !.details = DetailsOrEmpty(details)]

\* A variant of clear_history that resets the mapping whatever the argument.
ClearHistoryAll(h, feature) == InitializeHistory

\* HistoryManager.clear_history on the mapping: "if feature" is the
\* truthiness of the argument.
ClearHistoryOf(h, feature) ==
    IF feature \notin {"None", ""}
    THEN IF feature \in DOMAIN h THEN [h EXCEPT ![feature] = <<>>] ELSE h
    ELSE InitializeHistory

RECURSIVE SumLens(_, _)
SumLens(h, keys) ==
    IF keys = {} THEN 0
    ELSE LET k == CHOOSE x \in keys : TRUE
         IN  Len(h[k]) + SumLens(h, keys \ {k})

TotalEntries(h) == SumLens(h, DOMAIN h)

Data(inst) == IF inst = "app" THEN history_data ELSE page_history_data

SetData(inst, d) ==
    IF inst = "app"
    THEN history_data' = d /\ UNCHANGED page_history_data
    ELSE page_history_data' = d /\ UNCHANGED history_data

StoreCall(inst, op, feature, how) ==
    [inst |-> inst, op |-> op, feature |-> feature, how |-> how]

\* HistoryManager.__init__
Construct(inst) ==
    /\ LET l == LoadHistory(history_file)
       IN  /\ managers' = [managers EXCEPT
                              ![inst] = IF l.raised THEN "raised" ELSE "ready"]
           /\ SetData(inst, l.data)
    /\ last_call' = StoreCall(inst, "construct", "None", "None")
    /\ UNCHANGED <<history_file, clock, clock_regressed, started_initialized,
                   recent_query, recent_files, extractVars, chatVars,
                   summaryVars, pageVars, audioVars, sessionVars>>

\* HistoryManager.add_entry, the save included; ts is datetime.now().
AddEntry(inst, feature, file_name, details, ts, how) ==
    /\ managers[inst] = "ready"
    /\ TotalEntries(Data(inst)) < MaxStoreEntries
    /\ LET d == AddEntryTo(Data(inst), feature, EntryOf(ts, file_name, details))
       IN  /\ SetData(inst, d)
           /\ history_file' = SaveHistory(history_file, d, how)
    /\ clock' = ts
    /\ clock_regressed' = (clock_regressed \/ ts < clock)
    /\ last_call' = StoreCall(inst, "add_entry", feature, how)
    /\ UNCHANGED <<managers, started_initialized, recent_query, recent_files,
                   extractVars, chatVars, summaryVars, pageVars, audioVars,
                   sessionVars>>

\* HistoryManager.clear_history, the save included.
ClearHistory(inst, feature, how) ==
    /\ managers[inst] = "ready"
    /\ LET d == ClearHistoryOf(Data(inst), feature)
       IN  /\ SetData(inst, d)
           /\ history_file' = SaveHistory(history_file, d, how)
    /\ last_call' = StoreCall(inst, "clear_history", feature, how)
    /\ UNCHANGED <<managers, clock, clock_regressed, started_initialized,
                   recent_query, recent_files, extractVars, chatVars,
                   summaryVars, pageVars, audioVars, sessionVars>>

\* One manager, the one of DocuTextApp.
StoreNext ==
    \/ Construct("app")
    \/ \E feature \in AddFeatures, ts \in ClockReadings, how \in SaveOutcomes :
          AddEntry("app", feature, "A", "None", ts, how)
    \/ \E feature \in ClearFeatures, how \in SaveOutcomes :
          ClearHistory("app", feature, how)

\* No manager constructed yet, over one of InitialFiles.
InitStore ==
    /\ gemini_api_key = "None"
    /\ openai_api_key = "None"
    /\ strategy = "None"
    /\ pc = "idle"
    /\ total_pages = -1
    /\ page_num = 0
    /\ all_pages_text_content = <<>>
    /\ progress = <<>>
    /\ pdf_open = FALSE
    /\ opens = 0
    /\ remote_calls = <<>>
    /\ temp_images = {}
    /\ temp_writes = 0
    /\ attempted = <<>>
    /\ page_outcomes = <<>>
    /\ forwarded = <<>>
    /\ outcome = "none"
    /\ result = <<>>
    /\ last_set = "None"
    /\ history_data = InitializeHistory
    /\ recent_query = NoQuery
    /\ recent_files = <<>>
    /\ current_uploaded_filename = "absent"
    /\ extracted_text = AbsentText
    /\ output_filename = AbsentName
    /\ current_audio_filename = "absent"
    /\ transcription_result = AbsentText
    /\ audio_output_filename = AbsentName
    /\ current_summary_filename = "absent"
    /\ summary_result = AbsentText
    /\ summary_output_filename = AbsentName
    /\ chat_document_chunks = AbsentChunks
    /\ offered = NoDownload
    /\ last_rerun = NoRerun
    /\ recent_activity = NoActivity
    /\ deepgram_api_key = "None"
    /\ transcriber = "None"
    /\ tr_events = <<>>
    /\ tr_outcome = "none"
    /\ tr_result = ""
    /\ chat_remote_calls = <<>>
    /\ history_file \in InitialFiles
    /\ page_history_data = InitializeHistory
    /\ managers = [i \in Instances |-> "none"]
    /\ last_call = NoStoreCall
    /\ clock = 0
    /\ clock_regressed = FALSE
    /\ started_initialized = (LoadHistory(history_file).data = InitializeHistory)
    /\ uploads = {}
    /\ audio_uploads = {}
    /\ current_chat_filename = "None"
    /\ run = NoRun
    /\ chat_call = NoCall
    /\ chat_context = <<>>
    /\ chat_request = <<>>
    /\ chat_outcome = "none"
    /\ chat_result = ""
    /\ summarizer = "None"
    /\ sum_call = NoFile
    /\ sum_pc = "idle"
    /\ sum_chunks = <<>>
    /\ sum_events = <<>>
    /\ sum_request = <<>>
    /\ sum_outcome = "none"
    /\ sum_result = <<>>

SpecStore == InitStore /\ [][StoreNext]_vars

(***************************************************************************)
(* Properties of the history store, checked under SpecStore.               *)
(***************************************************************************)
Called(ops) == last_call.op \in ops

\* C11: clear_history(feature) with a feature name empties only that
\* feature's list and leaves every other list as it was; clear_history()
\* with no argument leaves exactly the four feature keys, each with an empty
\* list.
C11_ClearHistory ==
    [][(last_call'.op = "clear_history") =>
          LET feature == last_call'.feature
          IN  /\ (feature = "None") => history_data' = InitializeHistory
              /\ (feature \notin {"None", ""}) =>
                    /\ DOMAIN history_data' = DOMAIN history_data
                    /\ \A f \in DOMAIN history_data :
                          history_data'[f] =
                              (IF f = feature THEN <<>> ELSE history_data[f])]_vars

\* clear_history("pdf_to_text") whose save could not open the file: the file
\* still shows both lists as they were, memory has lost only pdf_to_text.
C11_Witness ==
    /\ last_call = StoreCall("app", "clear_history", "pdf_to_text", "open_failed")
    /\ history_file.kind = "json"
    /\ DOMAIN history_file.data = Features \cup {"other"}
    /\ DOMAIN history_data = Features \cup {"other"}
    /\ history_file.data["pdf_to_text"] # <<>>
    /\ history_file.data["other"] # <<>>
    /\ history_data["pdf_to_text"] = <<>>
    /\ history_data["other"] = history_file.data["other"]

\* C25: add_entry(feature, file_name, details) is append-only: it lengthens
\* the named feature's list by exactly one entry placed at the tail, leaves
\* every earlier entry of that list unchanged in content and position, and
\* leaves the lists of all other features unchanged.
C25_AddEntryAppendOnly ==
    [][(last_call'.op = "add_entry") =>
          LET feature == last_call'.feature
              before == IF feature \in DOMAIN history_data
                        THEN history_data[feature] ELSE <<>>
              after == history_data'[feature]
          IN  /\ DOMAIN history_data' = DOMAIN history_data \cup {feature}
              /\ Len(after) = Len(before) + 1
              /\ \A i \in 1..Len(before) : after[i] = before[i]
              /\ after[Len(after)].timestamp = clock'
              /\ \A f \in DOMAIN history_data \ {feature} :
                    history_data'[f] = history_data[f]]_vars

\* add_entry has just lengthened a list that held an entry, another list
\* holding none or one.
C25_Witness ==
    /\ last_call.op = "add_entry"
    /\ last_call.feature \in DOMAIN history_data
    /\ Len(history_data[last_call.feature]) = 2
    /\ history_data[last_call.feature][2].timestamp = clock

\* C14: after every add_entry or clear_history call returns, the backing
\* file holds the manager's entire in-memory mapping.
C14_WriteThrough ==
    Called({"add_entry", "clear_history"}) =>
        history_file = HistoryFile("json", history_data)

\* The same, for the calls whose save went through.
WriteThroughWhenSaved ==
    (Called({"add_entry", "clear_history"}) /\ last_call.how = "ok") =>
        history_file = HistoryFile("json", history_data)

IsEntry(e) == DOMAIN e = {"timestamp", "file_name", "details"}

\* A well-formed history object: the four feature keys, lists of entries.
WellFormedHistory(h) ==
    /\ DOMAIN h = Features
    /\ \A f \in DOMAIN h : \A i \in 1..Len(h[f]) : IsEntry(h[f][i])

WellFormedFile(file) == file.kind = "json" /\ WellFormedHistory(file.data)

\* C15: constructing a HistoryManager never raises, and when the backing
\* file is missing, unreadable, not valid JSON or not a well-formed history
\* object, the in-memory mapping is the four feature keys with empty lists.
C15_LoadNeverFails ==
    Called({"construct"}) =>
        /\ managers[last_call.inst] = "ready"
        /\ ~WellFormedFile(history_file) => history_data = InitializeHistory

\* C16: after any sequence of add_entry and clear_history calls with
\* arbitrary feature strings on a store that started initialized, the
\* persisted mapping has exactly the four feature keys, each a list of
\* entries with the fields timestamp, file_name and details.
C16_FourKeys ==
    (started_initialized /\ history_file.kind = "json") =>
        WellFormedHistory(history_file.data)

Sorted(entries) ==
    \A i \in 1..(Len(entries) - 1) :
        entries[i].timestamp <= entries[i + 1].timestamp

AllSorted(h) == \A f \in DOMAIN h : Sorted(h[f])

SharedNext ==
    \/ \E inst \in Instances : Construct(inst)
    \/ \E inst \in Instances, details \in DetailArgs, how \in SaveOutcomes :
          AddEntry(inst, "pdf_to_text", "A", details, 1, how)
    \/ \E inst \in Instances, feature \in {"pdf_to_text", "None"},
          how \in SaveOutcomes :
          ClearHistory(inst, feature, how)

\* No manager constructed yet, no history file yet.
InitShared ==
    /\ gemini_api_key = "None"
    /\ openai_api_key = "None"
    /\ strategy = "None"
    /\ pc = "idle"
    /\ total_pages = -1
    /\ page_num = 0
    /\ all_pages_text_content = <<>>
    /\ progress = <<>>
    /\ pdf_open = FALSE
    /\ opens = 0
    /\ remote_calls = <<>>
    /\ temp_images = {}
    /\ temp_writes = 0
    /\ attempted = <<>>
    /\ page_outcomes = <<>>
    /\ forwarded = <<>>
    /\ outcome = "none"
    /\ result = <<>>
    /\ last_set = "None"
    /\ history_data = InitializeHistory
    /\ recent_query = NoQuery
    /\ recent_files = <<>>
    /\ current_uploaded_filename = "absent"
    /\ extracted_text = AbsentText
    /\ output_filename = AbsentName
    /\ current_audio_filename = "absent"
    /\ transcription_result = AbsentText
    /\ audio_output_filename = AbsentName
    /\ current_summary_filename = "absent"
    /\ summary_result = AbsentText
    /\ summary_output_filename = AbsentName
    /\ chat_document_chunks = AbsentChunks
    /\ offered = NoDownload
    /\ last_rerun = NoRerun
    /\ recent_activity = NoActivity
    /\ deepgram_api_key = "None"
    /\ transcriber = "None"
    /\ tr_events = <<>>
    /\ tr_outcome = "none"
    /\ tr_result = ""
    /\ chat_remote_calls = <<>>
    /\ history_file = MissingFile
    /\ page_history_data = InitializeHistory
    /\ managers = [i \in Instances |-> "none"]
    /\ last_call = NoStoreCall
    /\ clock = 0
    /\ clock_regressed = FALSE
    /\ started_initialized = TRUE
    /\ uploads = {}
    /\ audio_uploads = {}
    /\ current_chat_filename = "None"
    /\ run = NoRun
    /\ chat_call = NoCall
    /\ chat_context = <<>>
    /\ chat_request = <<>>
    /\ chat_outcome = "none"
    /\ chat_result = ""
    /\ summarizer = "None"
    /\ sum_call = NoFile
    /\ sum_pc = "idle"
    /\ sum_chunks = <<>>
    /\ sum_events = <<>>
    /\ sum_request = <<>>
    /\ sum_outcome = "none"
    /\ sum_result = <<>>

SpecShared == InitShared /\ [][SharedNext]_vars

\* C20: when two managers over the same file interleave add_entry and
\* clear_history calls, the file after each call holds exactly the calling
\* manager's in-memory mapping, not merged with what the other manager
\* persisted after the caller loaded.
C20_LastWriterWins ==
    Called({"add_entry", "clear_history"}) =>
        history_file = HistoryFile("json", Data(last_call.inst))

\* The same, for the calls whose save went through.
LastWriterWinsWhenSaved ==
    (Called({"add_entry", "clear_history"}) /\ last_call.how = "ok") =>
        history_file = HistoryFile("json", Data(last_call.inst))

\* The page's manager has just overwritten an entry the app's manager
\* persisted after the page's manager loaded.
LostUpdate ==
    /\ last_call = StoreCall("page", "add_entry", "pdf_to_text", "ok")
    /\ Len(history_data["pdf_to_text"]) = 2
    /\ Len(page_history_data["pdf_to_text"]) = 1
    /\ history_file.data = page_history_data

(***************************************************************************)
(* Document chunks and the texts built from them (core/chat_engine.py,     *)
(* core/summarizer.py).  A text is a sequence of spans: span (src, from,   *)
(* len) stands for the len characters of src that start at offset from.    *)
(* Empty spans are not kept, so equal texts are equal sequences.           *)
(***************************************************************************)
Span(src, from, len) == [src |-> src, from |-> from, len |-> len]

\* chunk.page_content: the whole content of the chunk.
PageContent(chunk) ==
    IF chunk.len = 0 THEN <<>> ELSE <<Span(chunk.id, 0, chunk.len)>>

BlankLine == <<Span("\n\n", 0, 2)>>

RECURSIVE TextLen(_)
TextLen(text) ==
    IF text = <<>> THEN 0 ELSE Head(text).len + TextLen(Tail(text))

RECURSIVE TakeChars(_, _)
\* text[:k] for k >= 0.
TakeChars(text, k) ==
    IF k <= 0 \/ text = <<>> THEN <<>>
    ELSE IF Head(text).len <= k
         THEN <<Head(text)>> \o TakeChars(Tail(text), k - Head(text).len)
         ELSE <<[Head(text) EXCEPT !.len = k]>>

\* list[:k] for k >= 0.
TakeItems(list, k) == SubSeq(list, 1, IF k < Len(list) THEN k ELSE Len(list))

RECURSIVE ConcatChunks(_)
\* for chunk in chunks: document_text += chunk.page_content + "\n\n"
ConcatChunks(chunks) ==
    IF chunks = <<>> THEN <<>>
    ELSE PageContent(Head(chunks)) \o BlankLine \o ConcatChunks(Tail(chunks))

(***************************************************************************)
(* GeminiChatEngine and OpenAIChatEngine (core/chat_engine.py).            *)
(***************************************************************************)
MaxChunks == 6

MaxHistory == 4

\* max_chunks: int = 5
MaxContextChunks == 5

ChatChunkSet == {[id |-> "x", len |-> 3], [id |-> "y", len |-> 5000]}

RECURSIVE SeqsUpTo(_, _)
SeqsUpTo(S, n) ==
    IF n = 0 THEN {<<>>}
    ELSE LET shorter == SeqsUpTo(S, n - 1)
         IN  shorter \cup
             {Append(l, x) : l \in {y \in shorter : Len(y) = n - 1}, x \in S}

ChatChunkLists == SeqsUpTo(ChatChunkSet, MaxChunks)

\* The chat page's message list: user and assistant turns alternate, turn i
\* holds the i-th message.
ChatHistories ==
    {[i \in 1..n |-> [role |-> IF i % 2 = 1 THEN "user" ELSE "assistant",
                      content |-> <<"turn", i>>]] : n \in 0..MaxHistory}

Query == <<"query", 0>>

Engines == {"gemini", "openai"}

\* A variant that takes the last max_chunks chunks.
DocumentContextLast(chunks, max_chunks) ==
    ConcatChunks(SubSeq(chunks,
                        IF Len(chunks) > max_chunks
                        THEN Len(chunks) - max_chunks + 1 ELSE 1,
                        Len(chunks)))

\* _get_document_context: the same in both engines.
DocumentContext(chunks, max_chunks) ==
    ConcatChunks(TakeItems(chunks, max_chunks))

Message(role, template, context, content) ==
    [role |-> role, template |-> template, context |-> context,
     content |-> content]

RECURSIVE HistoryPairsNewestFirst(_, _)
\* A variant that forwards the latest pair first.
HistoryPairsNewestFirst(history, i) ==
    IF i >= Len(history) THEN <<>>
    ELSE HistoryPairsNewestFirst(history, i + 2)
         \o (IF i + 1 < Len(history)
             THEN <<Message("user", "", <<>>, history[i + 1].content),
                    Message("assistant", "", <<>>, history[i + 2].content)>>
             ELSE <<>>)

RECURSIVE HistoryPairs(_, _)
\* for i in range(0, len(history), 2): if i+1 < len(history): append the
\* pair.  i is 0-based as in the code.
HistoryPairs(history, i) ==
    IF i >= Len(history) THEN <<>>
    ELSE (IF i + 1 < Len(history)
          THEN <<Message("user", "", <<>>, history[i + 1].content),
                 Message("assistant", "", <<>>, history[i + 2].content)>>
          ELSE <<>>) \o HistoryPairs(history, i + 2)

\* What generate_response hands to the remote model.
ChatRequest(engine, context, history) ==
    IF engine = "gemini"
    THEN <<Message("prompt", "chat prompt", context, Query)>>
    ELSE <<Message("system", "chat system prompt", context, <<>>),
           Message("user", "", <<>>, Query)>>
         \o HistoryPairs(history, 0)

ChatErrKey(engine) ==
    IF engine = "gemini"
    THEN "[Error: Gemini API key not configured]"
    ELSE "[Error: OpenAI API key not configured]"

\* generate_response(query, document_chunks, history) of either engine.
\* The model handle or client is built outside the try block, the remote
\* call inside it.
GenerateResponse(engine, chunks, history) ==
    /\ chat_outcome = "none"
    /\ chat_call = [engine |-> engine, chunks |-> chunks, history |-> history]
    /\ IF chunks = <<>>
       THEN /\ chat_outcome' = "returned"
            /\ chat_result' = "Please upload a document first."
            /\ chat_context' = <<>>
            /\ chat_request' = <<>>
            /\ chat_remote_calls' = <<>>
       ELSE IF ~is_available(KeyOf(engine))
       THEN /\ chat_outcome' = "returned"
            /\ chat_result' = ChatErrKey(engine)
            /\ chat_context' = <<>>
            /\ chat_request' = <<>>
            /\ chat_remote_calls' = <<>>
       ELSE \E construct_ok \in BOOLEAN, remote_ok \in BOOLEAN :
               IF ~construct_ok
               THEN /\ chat_outcome' = "raised"
                    /\ chat_result' = ""
                    /\ chat_context' = <<>>
                    /\ chat_request' = <<>>
                    /\ chat_remote_calls' = <<>>
               ELSE /\ chat_context' = DocumentContext(chunks, MaxContextChunks)
                    /\ chat_request' = ChatRequest(engine, chat_context', history)
                    /\ chat_remote_calls' = <<engine>>
                    /\ chat_outcome' = "returned"
                    /\ chat_result' =
                          IF remote_ok
                          THEN "response text"
                          ELSE "Error: Error generating response: remote failed"
    /\ UNCHANGED <<chat_call, extractVars, historyVars, pageVars, summaryVars,
                   audioVars, sessionVars>>

\* The histories the chat page passes to chat(): the page appends the
\* current query to chat_history before the call, so the list is the prior
\* turns followed by the query.
PageHistories ==
    {Append(h, [role |-> "user", content |-> Query]) :
        h \in {g \in ChatHistories : Len(g) % 2 = 0}}

\* The calls made: any engine, any chunk list, any list of alternating
\* turns and any history of the chat page.
ChatCalls ==
    {[engine |-> e, chunks |-> c, history |-> h] :
        e \in Engines, c \in ChatChunkLists,
        h \in ChatHistories \cup PageHistories}

ChatNext ==
    GenerateResponse(chat_call.engine, chat_call.chunks, chat_call.history)

\* A call of generate_response about to be made.
InitChat ==
    /\ gemini_api_key \in ApiKeys
    /\ openai_api_key \in ApiKeys
    /\ strategy = "None"
    /\ pc = "idle"
    /\ total_pages = -1
    /\ page_num = 0
    /\ all_pages_text_content = <<>>
    /\ progress = <<>>
    /\ pdf_open = FALSE
    /\ opens = 0
    /\ remote_calls = <<>>
    /\ temp_images = {}
    /\ temp_writes = 0
    /\ attempted = <<>>
    /\ page_outcomes = <<>>
    /\ forwarded = <<>>
    /\ outcome = "none"
    /\ result = <<>>
    /\ last_set = "None"
    /\ history_data = InitializeHistory
    /\ recent_query = NoQuery
    /\ recent_files = <<>>
    /\ current_uploaded_filename = "absent"
    /\ extracted_text = AbsentText
    /\ output_filename = AbsentName
    /\ current_audio_filename = "absent"
    /\ transcription_result = AbsentText
    /\ audio_output_filename = AbsentName
    /\ current_summary_filename = "absent"
    /\ summary_result = AbsentText
    /\ summary_output_filename = AbsentName
    /\ chat_document_chunks = AbsentChunks
    /\ offered = NoDownload
    /\ last_rerun = NoRerun
    /\ recent_activity = NoActivity
    /\ deepgram_api_key = "None"
    /\ transcriber = "None"
    /\ tr_events = <<>>
    /\ tr_outcome = "none"
    /\ tr_result = ""
    /\ chat_remote_calls = <<>>
    /\ history_file = MissingFile
    /\ page_history_data = InitializeHistory
    /\ managers = [i \in Instances |-> "none"]
    /\ last_call = NoStoreCall
    /\ clock = 0
    /\ clock_regressed = FALSE
    /\ started_initialized = TRUE
    /\ uploads = {}
    /\ audio_uploads = {}
    /\ current_chat_filename = "None"
    /\ run = NoRun
    /\ chat_call \in ChatCalls
    /\ chat_context = <<>>
    /\ chat_request = <<>>
    /\ chat_outcome = "none"
    /\ chat_result = ""
    /\ summarizer = "None"
    /\ sum_call = NoFile
    /\ sum_pc = "idle"
    /\ sum_chunks = <<>>
    /\ sum_events = <<>>
    /\ sum_request = <<>>
    /\ sum_outcome = "none"
    /\ sum_result = <<>>

SpecChat == InitChat /\ [][ChatNext]_vars

(***************************************************************************)
(* Properties of the chat engines, checked under SpecChat.                 *)
(***************************************************************************)
\* A request was sent to the remote model.
ChatSent == chat_request # <<>>

\* The context placed in the request: the context field of its first message.
ContextSent == chat_request[1].context

\* C7: the document context placed in the prompt is built from exactly the
\* first min(5, len(chunks)) chunks in their original order (each followed
\* by a blank line), and from no chunk at index 5 or later.
C7_FirstFiveChunks ==
    ChatSent =>
        LET chunks == chat_call.chunks
            n == IF Len(chunks) < 5 THEN Len(chunks) ELSE 5
        IN  /\ Len(ContextSent) = 2 * n
            /\ \A i \in 1..n :
                  /\ ContextSent[2 * i - 1]
                        = [src |-> chunks[i].id, from |-> 0,
                           len |-> chunks[i].len]
                  /\ ContextSent[2 * i] = [src |-> "\n\n", from |-> 0, len |-> 2]
            /\ \A m \in 2..Len(chat_request) : chat_request[m].context = <<>>

C7_Witness ==
    /\ ChatSent
    /\ Len(chat_call.chunks) = 6
    /\ chat_call.chunks[6].id = "y"
    /\ \A i \in 1..5 : chat_call.chunks[i].id = "x"
    /\ \A i \in 1..Len(ContextSent) : ContextSent[i].src # "y"

\* The messages of the request after the system prompt and the query.
ForwardedPairs == SubSeq(chat_request, 3, Len(chat_request))

\* The complete (user, assistant) pairs of a history, in order, role-tagged.
CompletePairs(history) ==
    [j \in 1..2 * (Len(history) \div 2) |->
        Message(IF j % 2 = 1 THEN "user" ELSE "assistant", "", <<>>,
                history[j].content)]

\* C23: for a given query and chunk list the OpenAI engine forwards every
\* complete (user, assistant) pair of the history, in order, as role-tagged
\* messages, while the request the Gemini engine builds is the same for any
\* two histories.
C23_HistoryForwarding ==
    ChatSent =>
        IF chat_call.engine = "openai"
        THEN ForwardedPairs = CompletePairs(chat_call.history)
        ELSE \A h \in ChatHistories :
                chat_request = ChatRequest("gemini", chat_context, h)

\* An OpenAI request for a history of two complete pairs.
C23_Witness ==
    /\ ChatSent
    /\ chat_call.engine = "openai"
    /\ Len(chat_call.history) = 4
    /\ Len(ForwardedPairs) = 4
    /\ ForwardedPairs[1].content = <<"turn", 1>>
    /\ ForwardedPairs[4].content = <<"turn", 4>>

\* A Gemini request made with a non-empty history.
C23_WitnessGemini ==
    /\ ChatSent
    /\ chat_call.engine = "gemini"
    /\ Len(chat_call.history) = 4
    /\ Len(chat_request) = 1

\* The conversation in chronological order: the system prompt, the prior
\* turns each under its recorded role, the current query last.
Chronological(context, history) ==
    <<Message("system", "chat system prompt", context, <<>>)>>
    \o [i \in 1..Len(history) - 1 |->
           Message(history[i].role, "", <<>>, history[i].content)]
    \o <<Message("user", "", <<>>, Query)>>

SentByPage ==
    /\ ChatSent
    /\ chat_call.engine = "openai"
    /\ chat_call.history \in PageHistories

\* C27: the message list the OpenAI engine sends is the conversation in
\* chronological order: the system prompt, then the prior turns in their
\* original order each tagged with its recorded role, then the current user
\* query as the last message, for every history the chat page can produce,
\* those of odd length included.
C27_ChronologicalMessages ==
    SentByPage => chat_request = Chronological(chat_context, chat_call.history)

\* What holds: the query comes second, before the prior turns, which follow
\* in their original order under their recorded roles.
QueryBeforePriorTurns ==
    SentByPage =>
        chat_request =
            <<Message("system", "chat system prompt", chat_context, <<>>),
              Message("user", "", <<>>, Query)>>
            \o [i \in 1..Len(chat_call.history) - 1 |->
                   Message(chat_call.history[i].role, "", <<>>,
                           chat_call.history[i].content)]

\* A request for the second turn of a conversation: the query is sent ahead
\* of the first turn.
QueryAheadOfFirstTurn ==
    /\ SentByPage
    /\ Len(chat_call.history) = 3
    /\ chat_request[2].content = Query
    /\ chat_request[3].content = <<"turn", 1>>
    /\ chat_request[4].content = <<"turn", 2>>

(***************************************************************************)
(* DocumentLoader.load_document (core/chat_engine.py) and the summarizer   *)
(* (core/summarizer.py).                                                   *)
(***************************************************************************)
MaxSumChunks == 3

\* document_text[:50000]
SummaryCharLimit == 50000

SumChunkSet ==
    {[id |-> "p", len |-> 0], [id |-> "q", len |-> 1],
     [id |-> "r", len |-> 24998], [id |-> "s", len |-> 49999],
     [id |-> "t", len |-> 50001]}

SumChunkLists == SeqsUpTo(SumChunkSet, MaxSumChunks)

SummaryTypes == {"concise", "unlisted"}

\* The file at file_path (its extension, whether its loader succeeds, the
\* chunks the splitter makes of it) and the summary type asked for.
SummaryCalls ==
    {[ext |-> e, readable |-> r, chunks |-> <<>>, summary_type |-> "concise"] :
        e \in {".txt", ".pdf", ".docx", ".PDF"}, r \in BOOLEAN}
    \cup {[ext |-> ".pdf", readable |-> TRUE, chunks |-> c, summary_type |-> t] :
             c \in SumChunkLists, t \in SummaryTypes}

\* os.path.splitext(file_path)[1].lower() on the extensions of SummaryCalls.
Lower(ext) == IF ext = ".PDF" THEN ".pdf" ELSE ext

\* The loader class load_document constructs for an extension.
LoaderOf(ext) == IF ext = ".pdf" THEN "PyPDFLoader" ELSE "Docx2txtLoader"

\* A variant that hands back an empty chunk list next to the error message.
LoadDocumentBoth(file) ==
    IF Lower(file.ext) \notin {".pdf", ".docx"}
    THEN [chunks |-> <<>>, chunks_none |-> TRUE,
          error |-> "Unsupported file type", loaders |-> <<>>]
    ELSE IF ~file.readable
    THEN [chunks |-> <<>>, chunks_none |-> FALSE,
          error |-> "Error loading document: load failed",
          loaders |-> <<LoaderOf(Lower(file.ext))>>]
    ELSE [chunks |-> file.chunks, chunks_none |-> FALSE, error |-> "None",
          loaders |-> <<LoaderOf(Lower(file.ext))>>]

\* load_document: (chunks, None) or (None, error message), and the loaders
\* it invoked.
LoadDocument(file) ==
    IF Lower(file.ext) \notin {".pdf", ".docx"}
    THEN [chunks |-> <<>>, chunks_none |-> TRUE,
          error |-> "Unsupported file type", loaders |-> <<>>]
    ELSE IF ~file.readable
    THEN [chunks |-> <<>>, chunks_none |-> TRUE,
          error |-> "Error loading document: load failed",
          loaders |-> <<LoaderOf(Lower(file.ext))>>]
    ELSE [chunks |-> file.chunks, chunks_none |-> FALSE, error |-> "None",
          loaders |-> <<LoaderOf(Lower(file.ext))>>]

\* _get_summary_instruction
SummaryInstruction(summary_type) ==
    IF summary_type = "concise" THEN "concise instruction"
    ELSE IF summary_type = "detailed" THEN "detailed instruction"
    ELSE IF summary_type = "executive" THEN "executive instruction"
    ELSE IF summary_type = "bullet" THEN "bullet instruction"
    ELSE "comprehensive instruction"

\* A variant that cuts at the chunk size instead.
DocumentPortionShort(document_text) == TakeChars(document_text, 5000)

\* document_text[:50000]
DocumentPortion(document_text) == TakeChars(document_text, SummaryCharLimit)

SummaryMessage(role, template, document, instruction) ==
    [role |-> role, template |-> template, document |-> document,
     instruction |-> instruction]

\* What summarize hands to the remote model.
SummaryRequest(engine, document_text, summary_type) ==
    IF engine = "gemini"
    THEN <<SummaryMessage("prompt", "summary prompt",
                          DocumentPortion(document_text),
                          SummaryInstruction(summary_type))>>
    ELSE <<SummaryMessage("system", "summary system prompt", <<>>,
                          SummaryInstruction(summary_type)),
           SummaryMessage("user", "Here is the document to summarize:\n\n",
                          DocumentPortion(document_text), "")>>

SumReturn(r) ==
    /\ sum_outcome' = "returned"
    /\ sum_result' = r
    /\ sum_pc' = "idle"

\* SummarizerService.set_summarizer
SetSummarizer(s) ==
    /\ sum_pc = "idle"
    /\ sum_outcome = "none"
    /\ summarizer' = s
    /\ UNCHANGED <<sum_call, sum_pc, sum_chunks, sum_events, sum_request,
                   sum_outcome, sum_result, extractVars, historyVars, pageVars,
                   chatVars, audioVars, sessionVars>>

\* SummarizerService.summarize_document up to the call of
\* self.summarizer.summarize: the document is loaded first.
SummarizeDocument ==
    /\ sum_pc = "idle"
    /\ sum_outcome = "none"
    /\ LET loaded == LoadDocument(sum_call)
       IN  IF loaded.error # "None"
           THEN /\ sum_events' = <<"load">>
                /\ SumReturn(<<"Error: ", loaded.error>>)
                /\ UNCHANGED sum_chunks
           ELSE /\ sum_events' = <<"load", "split">>
                /\ sum_chunks' = loaded.chunks
                /\ IF summarizer = "None"
                   THEN SumReturn(<<"[Error: No summarizer selected]">>)
                   ELSE /\ sum_pc' = "summarize"
                        /\ UNCHANGED <<sum_outcome, sum_result>>
    /\ UNCHANGED <<summarizer, sum_call, sum_request, extractVars,
                   historyVars, pageVars, chatVars, audioVars, sessionVars>>

\* GeminiSummarizer.summarize and OpenAISummarizer.summarize: the credential
\* check, the model handle or client (outside the try block), the
\* concatenation, the remote call (inside the try block).
Summarize ==
    /\ sum_pc = "summarize"
    /\ IF ~is_available(KeyOf(summarizer))
       THEN /\ sum_events' = Append(sum_events, "key_check")
            /\ SumReturn(<<ChatErrKey(summarizer)>>)
            /\ UNCHANGED sum_request
       ELSE \E construct_ok \in BOOLEAN, remote_ok \in BOOLEAN :
               IF ~construct_ok
               THEN /\ sum_events' = sum_events \o <<"key_check", "construct">>
                    /\ sum_outcome' = "raised"
                    /\ sum_pc' = "idle"
                    /\ UNCHANGED <<sum_request, sum_result>>
               ELSE /\ sum_events' =
                          sum_events \o <<"key_check", "construct", "remote">>
                    /\ sum_request' =
                          SummaryRequest(summarizer, ConcatChunks(sum_chunks),
                                         sum_call.summary_type)
                    /\ SumReturn(IF remote_ok
                                 THEN <<"summary text">>
                                 ELSE <<"Error: ", "Error generating summary: ",
                                        "remote failed">>)
    /\ UNCHANGED <<summarizer, sum_call, sum_chunks, extractVars,
                   historyVars, pageVars, chatVars, audioVars, sessionVars>>

SummarizeNext ==
    \/ \E s \in Engines : SetSummarizer(s)
    \/ SummarizeDocument
    \/ Summarize

\* A service about to summarize one of SummaryCalls.
InitSummarize ==
    /\ gemini_api_key \in ApiKeys
    /\ openai_api_key \in ApiKeys
    /\ strategy = "None"
    /\ pc = "idle"
    /\ total_pages = -1
    /\ page_num = 0
    /\ all_pages_text_content = <<>>
    /\ progress = <<>>
    /\ pdf_open = FALSE
    /\ opens = 0
    /\ remote_calls = <<>>
    /\ temp_images = {}
    /\ temp_writes = 0
    /\ attempted = <<>>
    /\ page_outcomes = <<>>
    /\ forwarded = <<>>
    /\ outcome = "none"
    /\ result = <<>>
    /\ last_set = "None"
    /\ history_data = InitializeHistory
    /\ recent_query = NoQuery
    /\ recent_files = <<>>
    /\ current_uploaded_filename = "absent"
    /\ extracted_text = AbsentText
    /\ output_filename = AbsentName
    /\ current_audio_filename = "absent"
    /\ transcription_result = AbsentText
    /\ audio_output_filename = AbsentName
    /\ current_summary_filename = "absent"
    /\ summary_result = AbsentText
    /\ summary_output_filename = AbsentName
    /\ chat_document_chunks = AbsentChunks
    /\ offered = NoDownload
    /\ last_rerun = NoRerun
    /\ recent_activity = NoActivity
    /\ deepgram_api_key = "None"
    /\ transcriber = "None"
    /\ tr_events = <<>>
    /\ tr_outcome = "none"
    /\ tr_result = ""
    /\ chat_remote_calls = <<>>
    /\ history_file = MissingFile
    /\ page_history_data = InitializeHistory
    /\ managers = [i \in Instances |-> "none"]
    /\ last_call = NoStoreCall
    /\ clock = 0
    /\ clock_regressed = FALSE
    /\ started_initialized = TRUE
    /\ uploads = {}
    /\ audio_uploads = {}
    /\ current_chat_filename = "None"
    /\ run = NoRun
    /\ chat_call = NoCall
    /\ chat_context = <<>>
    /\ chat_request = <<>>
    /\ chat_outcome = "none"
    /\ chat_result = ""
    /\ summarizer = "None"
    /\ sum_call \in SummaryCalls
    /\ sum_pc = "idle"
    /\ sum_chunks = <<>>
    /\ sum_events = <<>>
    /\ sum_request = <<>>
    /\ sum_outcome = "none"
    /\ sum_result = <<>>


SpecSummarize == InitSummarize /\ [][SummarizeNext]_vars

(***************************************************************************)
(* Properties of the summarizer, checked under SpecSummarize.              *)
(***************************************************************************)
SumCallEnded == sum_pc = "idle" /\ sum_outcome # "none"

\* C5: with a Gemini or OpenAI summarizer selected and its API key absent,
\* summarize_document returns the "API key not configured" string and no
\* file I/O on the document (loader, chunking) happens before that return.
C5_KeyCheckedBeforeFileIO ==
    (SumCallEnded /\ summarizer \in Engines /\ KeyAbsent(KeyOf(summarizer)))
        => /\ sum_result = <<ChatErrKey(summarizer)>>
           /\ \A i \in 1..Len(sum_events) : sum_events[i] \notin {"load", "split"}

\* C13: for every path and every loader outcome, load_document returns a
\* pair with exactly one component populated, (chunks, None) or (None, error
\* message); an extension that is neither .pdf nor .docx yields (None,
\* "Unsupported file type") without invoking any loader.
C13_LoadDocumentPair ==
    (sum_events # <<>>) =>
        LET loaded == LoadDocument(sum_call)
        IN  /\ \/ /\ ~loaded.chunks_none
                  /\ loaded.error = "None"
                  /\ sum_chunks = loaded.chunks
               \/ /\ loaded.chunks_none
                  /\ loaded.chunks = <<>>
                  /\ loaded.error \notin {"None", ""}
                  /\ sum_result = <<"Error: ", loaded.error>>
            /\ (sum_call.ext \notin {".pdf", ".docx", ".PDF"}) =>
                  /\ loaded.chunks_none
                  /\ loaded.error = "Unsupported file type"
                  /\ loaded.loaders = <<>>

C13_Witness ==
    /\ sum_events # <<>>
    /\ sum_call.ext = ".txt"
    /\ sum_result = <<"Error: ", "Unsupported file type">>

SumSent == sum_request # <<>>

\* The document portion of the request: the document field of its last
\* message.
DocumentSent == sum_request[Len(sum_request)].document

RECURSIVE CharAt(_, _)
\* The character at 0-based position p of a text: its source and offset.
CharAt(text, p) ==
    IF p < Head(text).len
    THEN <<Head(text).src, Head(text).from + p>>
    ELSE CharAt(Tail(text), p - Head(text).len)

RECURSIVE CombinedCharAt(_, _)
\* The character at position p of the chunks written one after the other,
\* each followed by a blank line.
CombinedCharAt(chunks, p) ==
    IF p < Head(chunks).len THEN <<Head(chunks).id, p>>
    ELSE IF p < Head(chunks).len + 2 THEN <<"\n\n", p - Head(chunks).len>>
    ELSE CombinedCharAt(Tail(chunks), p - Head(chunks).len - 2)

RECURSIVE CombinedLen(_)
CombinedLen(chunks) ==
    IF chunks = <<>> THEN 0
    ELSE Head(chunks).len + 2 + CombinedLen(Tail(chunks))

\* Where a span of the text sent, a chunk or a separator starts: between two
\* such positions both texts run on character by character.
Breakpoints(text, chunks) ==
    {TextLen(SubSeq(text, 1, k)) : k \in 0..Len(text)}
    \cup {CombinedLen(SubSeq(chunks, 1, k)) : k \in 0..Len(chunks)}
    \cup {CombinedLen(SubSeq(chunks, 1, k)) - 2 : k \in 1..Len(chunks)}

\* C8: both summarizer back ends concatenate all chunks in order, each
\* followed by a blank line, and send the first 50,000 characters of that
\* text: the document portion sent has length min(50,000, combined length)
\* and is a prefix of the combined text.
C8_FirstFiftyThousand ==
    SumSent =>
        LET sent == DocumentSent
            total == CombinedLen(sum_chunks)
            n == TextLen(sent)
        IN  /\ n = Min(50000, total)
            /\ \A p \in (Breakpoints(sent, sum_chunks) \cup {n - 1})
                            \cap (0..(n - 1)) :
                  CharAt(sent, p) = CombinedCharAt(sum_chunks, p)
            /\ \A k \in 1..Len(sent) : sent[k].len > 0

C8_Witness ==
    /\ SumSent
    /\ summarizer = "openai"
    /\ Len(sum_chunks) = 3
    /\ CombinedLen(sum_chunks) > 50000
    /\ TextLen(DocumentSent) = 50000
    /\ DocumentSent[Len(DocumentSent)].src = "\n\n"
    /\ DocumentSent[Len(DocumentSent)].len = 1

(***************************************************************************)
(* The transcribers and AudioProcessor (core/audio_processor.py).          *)
(***************************************************************************)
Transcribers == {"deepgram", "gemini"}

\* self.config.api_key of the transcriber.
TranscriberKey(t) == IF t = "deepgram" THEN deepgram_api_key ELSE gemini_api_key

TranscribeErrKey(t) ==
    IF t = "deepgram"
    THEN "[Error: Deepgram API key not configured]"
    ELSE "[Error: Gemini API key not configured]"

\* What the collaborators do inside the try block of transcribe: the client
\* or model construction raises, reading the audio file raises, the remote
\* call (or reading its response) raises, the response holds no transcript,
\* or a transcript comes back.
TranscribeOutcomes ==
    {"construct_raise", "read_raise", "remote_raise", "no_results", "transcript"}

\* Only the Deepgram transcriber searches the response for a transcript.
TranscribeOutcomesOf(t) ==
    IF t = "deepgram" THEN TranscribeOutcomes
    ELSE TranscribeOutcomes \ {"no_results"}

\* The steps of the try block that were started, in order.  The three
\* readings of the Deepgram response are one "parse" step: none of them
\* issues a request.
TranscribeEvents(t, o) ==
    IF o = "construct_raise" THEN <<"construct">>
    ELSE IF o = "read_raise" THEN <<"construct", "read">>
    ELSE IF o = "remote_raise" THEN <<"construct", "read", "remote">>
    ELSE IF t = "deepgram" THEN <<"construct", "read", "remote", "parse">>
    ELSE <<"construct", "read", "remote">>

\* The string transcribe returns.
TranscribeResult(t, o) ==
    IF o = "transcript" THEN "transcript"
    ELSE IF o = "no_results" THEN "[Error: No transcription results in response]"
    ELSE IF t = "deepgram" THEN "[Error: Error during transcription: e]"
    ELSE "[Error: Error transcribing audio: e]"

\* AudioProcessor.set_transcriber
SetTranscriber(t) ==
    /\ tr_outcome = "none"
    /\ transcriber' = t
    /\ UNCHANGED <<deepgram_api_key, tr_events, tr_outcome, tr_result,
                   extractVars, historyVars, chatVars, summaryVars, pageVars,
                   sessionVars>>

\* AudioProcessor.process and the transcribe it forwards to.
ProcessAudio ==
    /\ tr_outcome = "none"
    /\ tr_outcome' = "returned"
    /\ IF transcriber = "None"
       THEN /\ tr_events' = <<>>
            /\ tr_result' = "[Error: No transcription service selected]"
       ELSE IF ~is_available(TranscriberKey(transcriber))
       THEN /\ tr_events' = <<"key_check">>
            /\ tr_result' = TranscribeErrKey(transcriber)
       ELSE \E o \in TranscribeOutcomesOf(transcriber) :
               /\ tr_events' = <<"key_check">> \o TranscribeEvents(transcriber, o)
               /\ tr_result' = TranscribeResult(transcriber, o)
    /\ UNCHANGED <<deepgram_api_key, transcriber, extractVars, historyVars,
                   chatVars, summaryVars, pageVars, sessionVars>>

TranscribeNext ==
    \/ \E t \in Transcribers : SetTranscriber(t)
    \/ ProcessAudio

(***************************************************************************)
(* The four services that call a remote model, one invocation of one of    *)
(* them per behaviour: an extraction, a chat turn, a summary or a          *)
(* transcription.  The services not invoked stay off.                      *)
(***************************************************************************)
RemoteServices == {"extract", "chat", "summarize", "transcribe"}

RemoteNext ==
    \/ ExtractNext
    \/ ChatNext
    \/ SummarizeNext
    \/ TranscribeNext

InitRemote ==
    \E service \in RemoteServices :
       /\ gemini_api_key \in ApiKeys
       /\ openai_api_key \in ApiKeys
       /\ strategy = "None"
       /\ pc = IF service = "extract" THEN "idle" ELSE "off"
       /\ total_pages = -1
       /\ page_num = 0
       /\ all_pages_text_content = <<>>
       /\ progress = <<>>
       /\ pdf_open = FALSE
       /\ opens = 0
       /\ remote_calls = <<>>
       /\ temp_images = {}
       /\ temp_writes = 0
       /\ attempted = <<>>
       /\ page_outcomes = <<>>
       /\ forwarded = <<>>
       /\ outcome = "none"
       /\ result = <<>>
       /\ last_set = "None"
       /\ history_data = InitializeHistory
       /\ recent_query = NoQuery
       /\ recent_files = <<>>
       /\ current_uploaded_filename = "absent"
       /\ extracted_text = AbsentText
       /\ output_filename = AbsentName
       /\ current_audio_filename = "absent"
       /\ transcription_result = AbsentText
       /\ audio_output_filename = AbsentName
       /\ current_summary_filename = "absent"
       /\ summary_result = AbsentText
       /\ summary_output_filename = AbsentName
       /\ chat_document_chunks = AbsentChunks
       /\ offered = NoDownload
       /\ last_rerun = NoRerun
       /\ recent_activity = NoActivity
       /\ deepgram_api_key \in IF service = "transcribe" THEN ApiKeys ELSE {"None"}
       /\ transcriber = "None"
       /\ tr_events = <<>>
       /\ tr_outcome = IF service = "transcribe" THEN "none" ELSE "off"
       /\ tr_result = ""
       /\ chat_remote_calls = <<>>
       /\ history_file = MissingFile
       /\ page_history_data = InitializeHistory
       /\ managers = [i \in Instances |-> "none"]
       /\ last_call = NoStoreCall
       /\ clock = 0
       /\ clock_regressed = FALSE
       /\ started_initialized = TRUE
       /\ uploads = {}
       /\ audio_uploads = {}
       /\ current_chat_filename = "None"
       /\ run = NoRun
       /\ chat_call \in IF service = "chat" THEN ChatCalls ELSE {NoCall}
       /\ chat_context = <<>>
       /\ chat_request = <<>>
       /\ chat_outcome = IF service = "chat" THEN "none" ELSE "off"
       /\ chat_result = ""
       /\ summarizer = "None"
       /\ sum_call \in IF service = "summarize" THEN SummaryCalls ELSE {NoFile}
       /\ sum_pc = IF service = "summarize" THEN "idle" ELSE "off"
       /\ sum_chunks = <<>>
       /\ sum_events = <<>>
       /\ sum_request = <<>>
       /\ sum_outcome = "none"
       /\ sum_result = <<>>

SpecRemote == InitRemote /\ [][RemoteNext]_vars

(***************************************************************************)
(* Properties of the remote calls, checked under SpecRemote.               *)
(***************************************************************************)
\* The number of positions of the sequence seq that hold x.
Count(seq, x) == Cardinality({i \in 1..Len(seq) : seq[i] = x})

\* C22: no remote call is re-attempted.  A vision-OCR extraction of an
\* N-page PDF issues at most one remote call per page, at most N in total,
\* whatever the failures; a chat, summarize or transcribe invocation issues
\* at most one remote call.
C22_NoRemoteCallRepeated ==
    /\ \A i \in 1..MaxPages + 1 : Count(remote_calls, i) <= 1
    /\ total_pages >= 0 => Len(remote_calls) <= total_pages
    /\ total_pages < 0 => remote_calls = <<>>
    /\ Len(chat_remote_calls) <= 1
    /\ Count(sum_events, "remote") <= 1
    /\ Count(tr_events, "remote") <= 1

\* A two-page extraction ended after the remote call failed on both pages,
\* each page having been sent once.
C22_Witness ==
    /\ VisionOpened
    /\ total_pages = 2
    /\ Len(page_outcomes) = 2
    /\ \A i \in 1..2 : page_outcomes[i].remote = "raise"
    /\ remote_calls = <<1, 2>>

\* Each of the other services ended after its one remote call failed.
C22_WitnessChat ==
    /\ chat_outcome = "returned"
    /\ chat_result = "Error: Error generating response: remote failed"
    /\ Len(chat_remote_calls) = 1

C22_WitnessTranscribe ==
    /\ tr_outcome = "returned"
    /\ tr_result = "[Error: Error during transcription: e]"
    /\ Count(tr_events, "remote") = 1

C22_WitnessSummarize ==
    /\ sum_outcome = "returned"
    /\ Count(sum_events, "remote") = 1

(***************************************************************************)
(* The pages (pages/doc_to_text.py, pages/audio_to_text.py,                *)
(* pages/chat_with_doc.py, pages/summarizer.py): one action is one run of  *)
(* a page's show(), which constructs the page's HistoryManager, saves the  *)
(* upload and, when the button was pressed, runs the operation.            *)
(***************************************************************************)
Pages == {"doc_to_text", "audio_to_text", "chat_with_doc", "summarizer"}

\* The feature key each page passes to add_entry.
FeatureOf(page) ==
    IF page = "doc_to_text" THEN "pdf_to_text"
    ELSE IF page = "audio_to_text" THEN "audio_to_text"
    ELSE IF page = "chat_with_doc" THEN "chat_with_doc"
    ELSE "summarizer"

DocumentNames == {"a.pdf", "b.docx"}

AudioNames == {"c.mp3"}

\* What the operation of a run can do: hand back text, hand back an
\* error-tagged string, or raise (a client or model handle built outside the
\* try blocks of core/); load_document hands back chunks or an error.
ExtractionOutcomes == {"text", "error_tagged", "raised"}

TranscriptionOutcomes == {"text", "error_tagged"}

LoadOutcomes == {"loaded", "load_error"}

\* The temp images process() can leave behind (a swallowed os.remove).
Leftovers == SUBSET {0}

PageRun(page, file, operated, o, before, stuck) ==
    [page |-> page, file |-> file, operated |-> operated, outcome |-> o,
     entries_before |-> before, stuck |-> stuck]

\* cleanup_temporary_files: the uploaded file and every file of
\* outputs/temp_images are removed; a failing os.remove is printed and
\* skipped (stuck).
CleanupTemporaryFiles(dir, temp, path, stuck) ==
    [uploads |-> IF stuck THEN dir ELSE dir \ {path},
     temp_images |-> IF stuck THEN temp ELSE {}]

\* cleanup_audio_file
CleanupAudioFile(dir, path, stuck) == IF stuck THEN dir ELSE dir \ {path}

\* self.history_manager = HistoryManager() of the page: the mapping loaded.
PageHistory == LoadHistory(history_file).data

\* A run that ends without add_entry: the manager was only constructed.
NoEntry ==
    /\ page_history_data' = PageHistory
    /\ managers' = [managers EXCEPT !["page"] = "ready"]
    /\ last_call' = StoreCall("page", "construct", "None", "None")
    /\ UNCHANGED <<history_file, clock, clock_regressed>>

\* A run that reaches self.history_manager.add_entry(feature, file, {...}).
PageAddEntry(feature, file, ts, how) ==
    /\ LET d == AddEntryTo(PageHistory, feature, EntryOf(ts, file, "success"))
       IN  /\ page_history_data' = d
           /\ history_file' = SaveHistory(history_file, d, how)
    /\ managers' = [managers EXCEPT !["page"] = "ready"]
    /\ clock' = ts
    /\ clock_regressed' = (clock_regressed \/ ts < clock)
    /\ last_call' = StoreCall("page", "add_entry", feature, how)

\* The runs are bounded by the entries the store may hold.
RoomFor == TotalEntries(PageHistory) < MaxStoreEntries

EntriesBefore(page) == Len(PageHistory[FeatureOf(page)])

\* DocumentToTextUI.show
ShowDocToText(file, pressed, o, leftover, stuck, how) ==
    /\ RoomFor
    /\ IF ~pressed
       THEN /\ uploads' = uploads \cup {file}
            /\ run' = PageRun("doc_to_text", file, FALSE, "None",
                              EntriesBefore("doc_to_text"), FALSE)
            /\ NoEntry
            /\ UNCHANGED temp_images
       ELSE /\ LET cleaned ==
                       CleanupTemporaryFiles(uploads \cup {file},
                                             temp_images \cup leftover,
                                             file, stuck)
               IN  /\ uploads' = cleaned.uploads
                   /\ temp_images' = cleaned.temp_images
            /\ run' = PageRun("doc_to_text", file, TRUE, o,
                              EntriesBefore("doc_to_text"), stuck)
            /\ IF o = "raised"
               THEN NoEntry
               ELSE PageAddEntry("pdf_to_text", file, 1, how)
    /\ UNCHANGED <<strategy, gemini_api_key, openai_api_key, pc, total_pages,
                   page_num, all_pages_text_content, progress, pdf_open, opens,
                   remote_calls, temp_writes, attempted, page_outcomes,
                   forwarded, outcome, result, last_set, history_data,
                   recent_query, recent_files, started_initialized,
                   audio_uploads, current_chat_filename, chatVars,
                   summaryVars, audioVars, sessionVars>>

\* AudioToTextUI.show: nothing is saved when no transcription service has a
\* key.
ShowAudioToText(file, available, pressed, o, stuck, how) ==
    /\ RoomFor
    /\ IF ~available
       THEN /\ run' = PageRun("audio_to_text", "None", FALSE, "None",
                              EntriesBefore("audio_to_text"), FALSE)
            /\ NoEntry
            /\ UNCHANGED audio_uploads
       ELSE IF ~pressed
       THEN /\ audio_uploads' = audio_uploads \cup {file}
            /\ run' = PageRun("audio_to_text", file, FALSE, "None",
                              EntriesBefore("audio_to_text"), FALSE)
            /\ NoEntry
       ELSE /\ audio_uploads' =
                  CleanupAudioFile(audio_uploads \cup {file}, file, stuck)
            /\ run' = PageRun("audio_to_text", file, TRUE, o,
                              EntriesBefore("audio_to_text"), stuck)
            /\ PageAddEntry("audio_to_text", file, 1, how)
    /\ UNCHANGED <<extractVars, history_data, recent_query, recent_files,
                   started_initialized, uploads, current_chat_filename,
                   chatVars, summaryVars, audioVars, sessionVars>>

\* The chat and summarizer pages return before the uploader when neither
\* key is configured.
ServiceAvailable == is_available(gemini_api_key) \/ is_available(openai_api_key)

\* ChatWithDocUI.show: a file whose name differs from the one in the session
\* is saved and loaded; the entry is added when load_document gave no error.
ShowChatWithDoc(file, o, how) ==
    /\ RoomFor
    /\ IF ~ServiceAvailable
       THEN /\ run' = PageRun("chat_with_doc", "None", FALSE, "None",
                              EntriesBefore("chat_with_doc"), FALSE)
            /\ NoEntry
            /\ UNCHANGED <<uploads, current_chat_filename>>
       ELSE IF file = current_chat_filename
       THEN /\ run' = PageRun("chat_with_doc", file, FALSE, "None",
                              EntriesBefore("chat_with_doc"), FALSE)
            /\ NoEntry
            /\ UNCHANGED <<uploads, current_chat_filename>>
       ELSE /\ current_chat_filename' = file
            /\ uploads' = uploads \cup {file}
            /\ run' = PageRun("chat_with_doc", file, TRUE, o,
                              EntriesBefore("chat_with_doc"), FALSE)
            /\ IF o = "load_error"
               THEN NoEntry
               ELSE PageAddEntry("chat_with_doc", file, 1, how)
    /\ UNCHANGED <<extractVars, history_data, recent_query, recent_files,
                   started_initialized, audio_uploads, chatVars, summaryVars,
                   audioVars, sessionVars>>

\* SummarizerUI.show
ShowSummarizer(file, pressed, o, how) ==
    /\ RoomFor
    /\ IF ~ServiceAvailable
       THEN /\ run' = PageRun("summarizer", "None", FALSE, "None",
                              EntriesBefore("summarizer"), FALSE)
            /\ NoEntry
            /\ UNCHANGED uploads
       ELSE IF ~pressed
       THEN /\ uploads' = uploads \cup {file}
            /\ run' = PageRun("summarizer", file, FALSE, "None",
                              EntriesBefore("summarizer"), FALSE)
            /\ NoEntry
       ELSE /\ uploads' = uploads \cup {file}
            /\ run' = PageRun("summarizer", file, TRUE, o,
                              EntriesBefore("summarizer"), FALSE)
            /\ IF o = "raised"
               THEN NoEntry
               ELSE PageAddEntry("summarizer", file, 1, how)
    /\ UNCHANGED <<extractVars, history_data, recent_query, recent_files,
                   started_initialized, audio_uploads, current_chat_filename,
                   chatVars, summaryVars, audioVars, sessionVars>>

PagesNext ==
    \/ \E file \in DocumentNames, pressed \in BOOLEAN,
          o \in ExtractionOutcomes, leftover \in Leftovers,
          stuck \in BOOLEAN, how \in SaveOutcomes :
          ShowDocToText(file, pressed, o, leftover, stuck, how)
    \/ \E file \in AudioNames, available \in BOOLEAN, pressed \in BOOLEAN,
          o \in TranscriptionOutcomes, stuck \in BOOLEAN,
          how \in SaveOutcomes :
          ShowAudioToText(file, available, pressed, o, stuck, how)
    \/ \E file \in DocumentNames, o \in LoadOutcomes, how \in SaveOutcomes :
          ShowChatWithDoc(file, o, how)
    \/ \E file \in DocumentNames, pressed \in BOOLEAN,
          o \in ExtractionOutcomes, how \in SaveOutcomes :
          ShowSummarizer(file, pressed, o, how)

\* A fresh installation: empty directories, no history file, the Gemini key
\* set or not.
InitPages ==
    /\ gemini_api_key \in {"None", "key"}
    /\ openai_api_key = "None"
    /\ strategy = "None"
    /\ pc = "idle"
    /\ total_pages = -1
    /\ page_num = 0
    /\ all_pages_text_content = <<>>
    /\ progress = <<>>
    /\ pdf_open = FALSE
    /\ opens = 0
    /\ remote_calls = <<>>
    /\ temp_images = {}
    /\ temp_writes = 0
    /\ attempted = <<>>
    /\ page_outcomes = <<>>
    /\ forwarded = <<>>
    /\ outcome = "none"
    /\ result = <<>>
    /\ last_set = "None"
    /\ history_data = InitializeHistory
    /\ recent_query = NoQuery
    /\ recent_files = <<>>
    /\ current_uploaded_filename = "absent"
    /\ extracted_text = AbsentText
    /\ output_filename = AbsentName
    /\ current_audio_filename = "absent"
    /\ transcription_result = AbsentText
    /\ audio_output_filename = AbsentName
    /\ current_summary_filename = "absent"
    /\ summary_result = AbsentText
    /\ summary_output_filename = AbsentName
    /\ chat_document_chunks = AbsentChunks
    /\ offered = NoDownload
    /\ last_rerun = NoRerun
    /\ recent_activity = NoActivity
    /\ deepgram_api_key = "None"
    /\ transcriber = "None"
    /\ tr_events = <<>>
    /\ tr_outcome = "none"
    /\ tr_result = ""
    /\ chat_remote_calls = <<>>
    /\ history_file = MissingFile
    /\ page_history_data = InitializeHistory
    /\ managers = [i \in Instances |-> "none"]
    /\ last_call = NoStoreCall
    /\ clock = 0
    /\ clock_regressed = FALSE
    /\ started_initialized = TRUE
    /\ uploads = {}
    /\ audio_uploads = {}
    /\ current_chat_filename = "None"
    /\ run = NoRun
    /\ chat_call = NoCall
    /\ chat_context = <<>>
    /\ chat_request = <<>>
    /\ chat_outcome = "none"
    /\ chat_result = ""
    /\ summarizer = "None"
    /\ sum_call = NoFile
    /\ sum_pc = "idle"
    /\ sum_chunks = <<>>
    /\ sum_events = <<>>
    /\ sum_request = <<>>
    /\ sum_outcome = "none"
    /\ sum_result = <<>>

SpecPages == InitPages /\ [][PagesNext]_vars

(***************************************************************************)
(* Properties of the pages, checked under SpecPages.                       *)
(***************************************************************************)
EntriesNow == Len(page_history_data[FeatureOf(run.page)])

\* C18: every completed operation started from a page appends exactly one
\* history entry under its feature key before the run ends, whether it
\* succeeded, returned an error-tagged result, failed to load the document
\* or raised.
C18_EntryPerOperation == run.operated => EntriesNow = run.entries_before + 1

\* The same, for the operations that handed back a result.
EntryWhenResultReturned ==
    (run.operated /\ run.outcome \in {"text", "error_tagged", "loaded"})
        => EntriesNow = run.entries_before + 1

\* No entry for the operations that raised or could not load the document.
NoEntryWhenFailed ==
    (run.operated /\ run.outcome \in {"raised", "load_error"})
        => EntriesNow = run.entries_before

\* C19: after every run of an operation on an uploaded file (extraction,
\* chat document load, summarization) the file saved for the run is gone
\* from the upload directory and outputs/temp_images holds no files.
C19_CleanedAfterRun ==
    (run.operated /\ run.page \in {"doc_to_text", "chat_with_doc", "summarizer"})
        => /\ run.file \notin uploads
           /\ temp_images = {}

\* The same, for the extraction page when every os.remove went through.
CleanedAfterExtraction ==
    (run.operated /\ run.page = "doc_to_text" /\ ~run.stuck)
        => /\ run.file \notin uploads
           /\ temp_images = {}

\* The chat and summarizer pages leave the file of the run in uploads/.
LeftAfterChatOrSummary ==
    (run.operated /\ run.page \in {"chat_with_doc", "summarizer"})
        => run.file \in uploads

(***************************************************************************)
(* st.session_state across the reruns of a page (pages/doc_to_text.py,     *)
(* pages/audio_to_text.py, pages/summarizer.py, pages/chat_with_doc.py).   *)
(* One action is one run of show() as far as it reads and writes the       *)
(* session and renders the result and its download button; what the same   *)
(* run does to the directories and to the history is in the Show actions   *)
(* above.  A key that is not in the session yet has the value "absent".    *)
(***************************************************************************)
\* The file uploader holds a file or nothing.
NoUpload == "None"

\* The text a run stores: the literal it starts with and, for the record,
\* the uploaded file the run worked on.
ResultText(prefix, file) == [prefix |-> prefix, file |-> file]

\* tag in text, for the literals the pages test for.
HasTag(text, tag) ==
    <<text.prefix, tag>> \in {<<"[Error: ", "[Error">>,
                              <<"[Error: ", "Error:">>,
                              <<"Error: ", "Error:">>}

\* f"{base_filename}{suffix}"
OutputName(file, suffix) == [base |-> file, suffix |-> suffix]

\* What process() hands back, or the text the except branch stores.
DocResult(o, file) ==
    IF o = "text" THEN ResultText("", file)
    ELSE IF o = "error_tagged" THEN ResultText("[Error: ", file)
    ELSE ResultText("Critical error during extraction: ", file)

AudioResult(o, file) ==
    IF o = "text" THEN ResultText("", file)
    ELSE IF o = "error_tagged" THEN ResultText("[Error: ", file)
    ELSE ResultText("Critical error during transcription: ", file)

SummaryResult(o, file) ==
    IF o = "text" THEN ResultText("", file)
    ELSE IF o = "error_tagged" THEN ResultText("Error: ", file)
    ELSE ResultText("Critical error during summarization: ", file)

\* if "key" not in st.session_state: st.session_state.key = None
DefaultedText(v) == IF v = AbsentText THEN NoText ELSE v

DefaultedName(v) == IF v = AbsentName THEN NoName ELSE v

DefaultedChunks(v) == IF v = AbsentChunks THEN NoChunks ELSE v

\* The download button of a run: rendered when a text is stored, a file
\* name is there and the text does not hold the tag.
Download(text, name, tag) ==
    IF /\ text # NoText
       /\ name \notin {NoName, AbsentName}
       /\ ~HasTag(text, tag)
    THEN [text |-> text, file_name |-> name]
    ELSE NoDownload

Rerun(page, upload, pressed) ==
    [page |-> page, upload |-> upload, pressed |-> pressed]

\* DocumentToTextUI.show
RerunDocToText(upload, pressed, o) ==
    /\ pressed => upload # NoUpload
    /\ last_rerun' = Rerun("doc_to_text", upload, pressed)
    /\ IF upload = NoUpload
       THEN /\ offered' = NoDownload
            /\ UNCHANGED <<current_uploaded_filename, extracted_text,
                           output_filename>>
       ELSE LET changed == current_uploaded_filename # upload
                text == IF pressed THEN DocResult(o, upload)
                        ELSE IF changed THEN NoText
                        ELSE DefaultedText(extracted_text)
                name == IF pressed THEN OutputName(upload, "_extracted.txt")
                        ELSE IF changed THEN NoName
                        ELSE DefaultedName(output_filename)
            IN  /\ current_uploaded_filename' = IF pressed THEN "None" ELSE upload
                /\ extracted_text' = text
                /\ output_filename' = name
                /\ offered' = Download(text, name, "[Error")
    /\ UNCHANGED <<current_audio_filename, transcription_result,
                   audio_output_filename, current_summary_filename,
                   summary_result, summary_output_filename,
                   chat_document_chunks, recent_activity, extractVars,
                   historyVars, chatVars, summaryVars, pageVars, audioVars>>

\* Some transcription service has its key.
AudioAvailable == is_available(deepgram_api_key) \/ is_available(gemini_api_key)

\* AudioToTextUI.show: the result is rendered whether or not a file is in
\* the uploader.
RerunAudioToText(upload, pressed, o) ==
    /\ pressed => upload # NoUpload
    /\ last_rerun' = Rerun("audio_to_text", upload, pressed)
    /\ IF ~AudioAvailable
       THEN /\ offered' = NoDownload
            /\ UNCHANGED <<current_audio_filename, transcription_result,
                           audio_output_filename>>
       ELSE LET changed == upload # NoUpload /\ current_audio_filename # upload
                text == IF pressed THEN AudioResult(o, upload)
                        ELSE IF changed THEN NoText
                        ELSE DefaultedText(transcription_result)
                name == IF pressed THEN OutputName(upload, "_transcript.txt")
                        ELSE IF changed THEN NoName
                        ELSE DefaultedName(audio_output_filename)
            IN  /\ current_audio_filename' =
                      IF pressed THEN "None"
                      ELSE IF changed THEN upload
                      ELSE current_audio_filename
                /\ transcription_result' = text
                /\ audio_output_filename' = name
                /\ offered' = Download(text, name, "[Error")
    /\ UNCHANGED <<current_uploaded_filename, extracted_text, output_filename,
                   current_summary_filename, summary_result,
                   summary_output_filename, chat_document_chunks,
                   recent_activity, extractVars, historyVars, chatVars,
                   summaryVars, pageVars, audioVars>>

\* SummarizerUI.show: summary_output_filename is written on the path that
\* stores the summary, not in the except branch.
RerunSummarizer(upload, pressed, o) ==
    /\ pressed => upload # NoUpload
    /\ last_rerun' = Rerun("summarizer", upload, pressed)
    /\ IF ~ServiceAvailable
       THEN /\ offered' = NoDownload
            /\ UNCHANGED <<current_summary_filename, summary_result,
                           summary_output_filename>>
       ELSE LET changed == upload # NoUpload /\ current_summary_filename # upload
                text == IF pressed THEN SummaryResult(o, upload)
                        ELSE IF changed THEN NoText
                        ELSE DefaultedText(summary_result)
                name == IF pressed /\ o # "raised"
                        THEN OutputName(upload, "_concise_summary.txt")
                        ELSE summary_output_filename
            IN  /\ current_summary_filename' =
                      IF changed THEN upload ELSE current_summary_filename
                /\ summary_result' = text
                /\ summary_output_filename' = name
                /\ offered' = Download(text, name, "Error:")
    /\ UNCHANGED <<current_uploaded_filename, extracted_text, output_filename,
                   current_audio_filename, transcription_result,
                   audio_output_filename, chat_document_chunks,
                   recent_activity, extractVars, historyVars, chatVars,
                   summaryVars, pageVars, audioVars>>

\* The chunks load_document made of a file.
ChunksOf(file) == [from |-> file]

\* st.session_state.current_chat_filename = uploaded_file.name, before the
\* load and whatever its outcome.
LoadedName(upload, o) == upload

\* ChatWithDocUI.show: a file whose name differs from the one in the session
\* is loaded; a file of the same name is only previewed.
RerunChatWithDoc(upload, o) ==
    /\ last_rerun' = Rerun("chat_with_doc", upload, FALSE)
    /\ offered' = NoDownload
    /\ IF ~ServiceAvailable
       THEN UNCHANGED <<current_chat_filename, chat_document_chunks>>
       ELSE IF upload # NoUpload /\ current_chat_filename # upload
       THEN /\ current_chat_filename' = LoadedName(upload, o)
            /\ chat_document_chunks' =
                  IF o = "loaded" THEN ChunksOf(upload) ELSE NoChunks
       ELSE /\ chat_document_chunks' = DefaultedChunks(chat_document_chunks)
            /\ UNCHANGED current_chat_filename
    /\ UNCHANGED <<current_uploaded_filename, extracted_text, output_filename,
                   current_audio_filename, transcription_result,
                   audio_output_filename, current_summary_filename,
                   summary_result, summary_output_filename, recent_activity,
                   uploads, audio_uploads, run, extractVars, historyVars,
                   chatVars, summaryVars, audioVars>>

Uploads == DocumentNames \cup {NoUpload}

AudioUploads == AudioNames \cup {"d.wav", NoUpload}

SessionNext ==
    \/ \E upload \in Uploads, pressed \in BOOLEAN, o \in ExtractionOutcomes :
          RerunDocToText(upload, pressed, o)
    \/ \E upload \in AudioUploads, pressed \in BOOLEAN,
          o \in TranscriptionOutcomes :
          RerunAudioToText(upload, pressed, o)
    \/ \E upload \in Uploads, pressed \in BOOLEAN, o \in ExtractionOutcomes :
          RerunSummarizer(upload, pressed, o)
    \/ \E upload \in Uploads, o \in LoadOutcomes : RerunChatWithDoc(upload, o)

\* A fresh session: nothing in st.session_state, the keys set or not.
InitSession ==
    /\ gemini_api_key \in {"None", "key"}
    /\ openai_api_key = "None"
    /\ strategy = "None"
    /\ pc = "idle"
    /\ total_pages = -1
    /\ page_num = 0
    /\ all_pages_text_content = <<>>
    /\ progress = <<>>
    /\ pdf_open = FALSE
    /\ opens = 0
    /\ remote_calls = <<>>
    /\ temp_images = {}
    /\ temp_writes = 0
    /\ attempted = <<>>
    /\ page_outcomes = <<>>
    /\ forwarded = <<>>
    /\ outcome = "none"
    /\ result = <<>>
    /\ last_set = "None"
    /\ history_data = InitializeHistory
    /\ recent_query = NoQuery
    /\ recent_files = <<>>
    /\ current_uploaded_filename = "absent"
    /\ extracted_text = AbsentText
    /\ output_filename = AbsentName
    /\ current_audio_filename = "absent"
    /\ transcription_result = AbsentText
    /\ audio_output_filename = AbsentName
    /\ current_summary_filename = "absent"
    /\ summary_result = AbsentText
    /\ summary_output_filename = AbsentName
    /\ chat_document_chunks = AbsentChunks
    /\ offered = NoDownload
    /\ last_rerun = NoRerun
    /\ recent_activity = NoActivity
    /\ deepgram_api_key \in {"None", "key"}
    /\ transcriber = "None"
    /\ tr_events = <<>>
    /\ tr_outcome = "none"
    /\ tr_result = ""
    /\ chat_remote_calls = <<>>
    /\ history_file = MissingFile
    /\ page_history_data = InitializeHistory
    /\ managers = [i \in Instances |-> "none"]
    /\ last_call = NoStoreCall
    /\ clock = 0
    /\ clock_regressed = FALSE
    /\ started_initialized = TRUE
    /\ uploads = {}
    /\ audio_uploads = {}
    /\ current_chat_filename = "None"
    /\ run = NoRun
    /\ chat_call = NoCall
    /\ chat_context = <<>>
    /\ chat_request = <<>>
    /\ chat_outcome = "none"
    /\ chat_result = ""
    /\ summarizer = "None"
    /\ sum_call = NoFile
    /\ sum_pc = "idle"
    /\ sum_chunks = <<>>
    /\ sum_events = <<>>
    /\ sum_request = <<>>
    /\ sum_outcome = "none"
    /\ sum_result = <<>>

SpecSession == InitSession /\ [][SessionNext]_vars

(***************************************************************************)
(* Properties of the session, checked under SpecSession.                   *)
(***************************************************************************)
Offered == offered # NoDownload

\* C26: on the document, audio and summarizer pages a download button is
\* offered only for the result of a run that succeeded: never for the text of
\* the unexpected-exception handler ("Critical error during ...") nor for an
\* error-tagged result, and the offered file name belongs to the run whose
\* text is offered.
C26_DownloadOnlyForSuccess ==
    Offered =>
        /\ offered.text.prefix = ""
        /\ offered.file_name.base = offered.text.file

\* What holds of the button: never for an error-tagged result, and on the
\* document and audio pages under the name of the run that stored the text.
DownloadNeverErrorTagged ==
    Offered =>
        /\ offered.text.prefix \notin {"[Error: ", "Error: "}
        /\ last_rerun.page \in {"doc_to_text", "audio_to_text"}
              => offered.file_name.base = offered.text.file

\* A download offered for a successful run under its own file name.
DownloadOfSuccess ==
    /\ Offered
    /\ offered.text.prefix = ""
    /\ offered.file_name.base = offered.text.file

\* A download offered for the text of the except branch.
DownloadOfCritical ==
    /\ Offered
    /\ offered.text.prefix = "Critical error during extraction: "

\* A download offered under a file name written by an earlier run.
DownloadUnderStaleName ==
    /\ Offered
    /\ offered.file_name.base # offered.text.file

\* The latest run was one of the chat page with a file in the uploader.
ChatPageWith(upload) ==
    /\ last_rerun.page = "chat_with_doc"
    /\ last_rerun.upload = upload
    /\ upload # NoUpload

\* C28: on the chat page, after any sequence of uploads and reruns, whenever
\* current_chat_filename equals the name of the currently uploaded file,
\* chat_document_chunks holds the chunks loaded from that file; a failed
\* load does not leave the page where the same file is never loaded again.
C28_ChunksOfCurrentFile ==
    \A upload \in DocumentNames :
        (ChatPageWith(upload) /\ current_chat_filename = upload)
            => chat_document_chunks = ChunksOf(upload)

\* What holds: the chunks are those of the current file or there are none.
ChunksOfCurrentFileOrNone ==
    \A upload \in DocumentNames :
        (ChatPageWith(upload) /\ current_chat_filename = upload)
            => chat_document_chunks \in {ChunksOf(upload), NoChunks}

\* A run of the chat page with the file whose name the session holds loads
\* nothing.
SameNameNeverReloaded ==
    [][(/\ last_rerun'.page = "chat_with_doc"
        /\ last_rerun'.upload # NoUpload
        /\ last_rerun'.upload = current_chat_filename)
           => /\ chat_document_chunks' = DefaultedChunks(chat_document_chunks)
              /\ current_chat_filename' = current_chat_filename]_vars

\* The file is in the uploader and named in the session, and after its
\* failed load no chunks are there.
NamedButNotLoaded ==
    /\ ChatPageWith("a.pdf")
    /\ current_chat_filename = "a.pdf"
    /\ chat_document_chunks = NoChunks

\* The file was loaded.
NamedAndLoaded ==
    /\ ChatPageWith("a.pdf")
    /\ current_chat_filename = "a.pdf"
    /\ chat_document_chunks = ChunksOf("a.pdf")

\* A text stored by an extraction run.
Stored(text) == text \notin {AbsentText, NoText}

\* C29: on the document page, once an extraction run has stored its text,
\* every later rerun with the same file still uploaded and without the
\* extract button pressed keeps extracted_text and output_filename
\* unchanged.
C29_ResultKeptAcrossReruns ==
    [][(/\ last_rerun'.page = "doc_to_text"
        /\ ~last_rerun'.pressed
        /\ Stored(extracted_text)
        /\ last_rerun'.upload = extracted_text.file)
           => /\ extracted_text' = extracted_text
              /\ output_filename' = output_filename]_vars

\* What holds: the run that stored the text has left
\* current_uploaded_filename at None, and the next run with a file in the
\* uploader and the button not pressed discards the text and the file name.
ResultDiscardedByNextRerun ==
    [][(/\ last_rerun'.page = "doc_to_text"
        /\ ~last_rerun'.pressed
        /\ last_rerun'.upload # NoUpload
        /\ Stored(extracted_text))
           => /\ current_uploaded_filename = "None"
              /\ extracted_text' = NoText
              /\ output_filename' = NoName]_vars

\* A rerun of the document page, the file of the stored text still in the
\* uploader and the button not pressed, after which no text is stored.
TextGoneAfterRerun ==
    /\ last_rerun = Rerun("doc_to_text", "a.pdf", FALSE)
    /\ extracted_text = NoText
    /\ output_filename = NoName
    /\ current_uploaded_filename = "a.pdf"

(***************************************************************************)
(* The home screen (app.py): DocuTextApp.show_home.                        *)
(***************************************************************************)
\* all_history.get(feature, [])
TabEntries(h, feature) == IF feature \in DOMAIN h THEN h[feature] ELSE <<>>

\* entry['timestamp'][:10]: the date of the timestamp; two clock readings
\* fall on one day.
DateOf(ts) == ts \div 2

\* f"{entry['file_name']} - {entry['timestamp'][:10]}"
ActivityLine(entry) ==
    [file_name |-> entry.file_name, date |-> DateOf(entry.timestamp)]

ActivityLines(entries) == [i \in 1..Len(entries) |-> ActivityLine(entries[i])]

\* The Recent Activity expander: "No recent activity" when every list is
\* empty, else one tab per feature with the lines of history[:5].
ActivityPanel(h) ==
    [shown |-> TRUE,
     tabs |-> [f \in Features |-> ActivityLines(TakeItems(TabEntries(h, f), 5))]]

\* One run of show_home: the sidebar of show_api_status comes first, with
\* its Clear History button, then the panel is rendered from get_history().
ShowHome(clear, how) ==
    /\ LET d == IF clear THEN ClearHistoryOf(history_data, "None")
                ELSE history_data
       IN  /\ history_data' = d
           /\ history_file' = IF clear THEN SaveHistory(history_file, d, how)
                              ELSE history_file
           /\ last_call' = IF clear
                           THEN StoreCall("app", "clear_history", "None", how)
                           ELSE last_call
           /\ recent_activity' = ActivityPanel(d)
    /\ UNCHANGED <<recent_query, recent_files, page_history_data, managers,
                   clock, clock_regressed, started_initialized,
                   current_uploaded_filename, extracted_text, output_filename,
                   current_audio_filename, transcription_result,
                   audio_output_filename, current_summary_filename,
                   summary_result, summary_output_filename,
                   chat_document_chunks, offered, last_rerun, extractVars,
                   chatVars, summaryVars, pageVars, audioVars>>

HomeNext ==
    \E clear \in BOOLEAN, how \in SaveOutcomes : ShowHome(clear, how)

\* The app over a store that holds one of Histories, saved in its file.
InitHome ==
    /\ gemini_api_key = "None"
    /\ openai_api_key = "None"
    /\ strategy = "None"
    /\ pc = "idle"
    /\ total_pages = -1
    /\ page_num = 0
    /\ all_pages_text_content = <<>>
    /\ progress = <<>>
    /\ pdf_open = FALSE
    /\ opens = 0
    /\ remote_calls = <<>>
    /\ temp_images = {}
    /\ temp_writes = 0
    /\ attempted = <<>>
    /\ page_outcomes = <<>>
    /\ forwarded = <<>>
    /\ outcome = "none"
    /\ result = <<>>
    /\ last_set = "None"
    /\ history_data \in Histories
    /\ recent_query = NoQuery
    /\ recent_files = <<>>
    /\ current_uploaded_filename = "absent"
    /\ extracted_text = AbsentText
    /\ output_filename = AbsentName
    /\ current_audio_filename = "absent"
    /\ transcription_result = AbsentText
    /\ audio_output_filename = AbsentName
    /\ current_summary_filename = "absent"
    /\ summary_result = AbsentText
    /\ summary_output_filename = AbsentName
    /\ chat_document_chunks = AbsentChunks
    /\ offered = NoDownload
    /\ last_rerun = NoRerun
    /\ recent_activity = NoActivity
    /\ deepgram_api_key = "None"
    /\ transcriber = "None"
    /\ tr_events = <<>>
    /\ tr_outcome = "none"
    /\ tr_result = ""
    /\ chat_remote_calls = <<>>
    /\ history_file = HistoryFile("json", history_data)
    /\ page_history_data = InitializeHistory
    /\ managers = [i \in Instances |-> IF i = "app" THEN "ready" ELSE "none"]
    /\ last_call = NoStoreCall
    /\ clock = 0
    /\ clock_regressed = FALSE
    /\ started_initialized = TRUE
    /\ uploads = {}
    /\ audio_uploads = {}
    /\ current_chat_filename = "None"
    /\ run = NoRun
    /\ chat_call = NoCall
    /\ chat_context = <<>>
    /\ chat_request = <<>>
    /\ chat_outcome = "none"
    /\ chat_result = ""
    /\ summarizer = "None"
    /\ sum_call = NoFile
    /\ sum_pc = "idle"
    /\ sum_chunks = <<>>
    /\ sum_events = <<>>
    /\ sum_request = <<>>
    /\ sum_outcome = "none"
    /\ sum_result = <<>>

SpecHome == InitHome /\ [][HomeNext]_vars

(***************************************************************************)
(* Properties of the home screen, checked under SpecHome.                  *)
(***************************************************************************)
\* The last k items of a list.
LastItems(list, k) ==
    SubSeq(list, IF Len(list) > k THEN Len(list) - k + 1 ELSE 1, Len(list))

\* C30: for every history, the Recent Activity panel lists for each feature
\* the five most recently appended entries of that feature's list, or all of
\* them when there are fewer than five.
C30_FiveMostRecentListed ==
    recent_activity.shown =>
        \A f \in Features :
            recent_activity.tabs[f]
                = ActivityLines(LastItems(TabEntries(history_data, f), 5))

\* What holds: each tab lists the first five entries of the list, the five
\* appended earliest.
FiveEarliestListed ==
    recent_activity.shown =>
        \A f \in Features :
            recent_activity.tabs[f]
                = ActivityLines(TakeItems(TabEntries(history_data, f), 5))

\* The panel over a list of seven entries: the latest entry is not listed.
LatestEntryNotListed ==
    /\ recent_activity.shown
    /\ Len(history_data["audio_to_text"]) = 7
    /\ Len(recent_activity.tabs["audio_to_text"]) = 5
    /\ recent_activity.tabs["audio_to_text"][5]
          = ActivityLine(history_data["audio_to_text"][5])
    /\ history_data["audio_to_text"][7].file_name = "E"
    /\ \A i \in 1..5 : recent_activity.tabs["audio_to_text"][i].file_name # "E"

\* The panel over a list of at most five entries lists all of them.
AllListedWhenFew ==
    /\ recent_activity.shown
    /\ Len(history_data["audio_to_text"]) = 5
    /\ recent_activity.tabs["audio_to_text"]
          = ActivityLines(history_data["audio_to_text"])

====
